---- MODULE Spec2Model ----
(***************************************************************************)
(* Response-shaping pipeline of the Sprut.hub MCP server                   *)
(* (src/src/index.js, class SpruthubMCPServer, the variant with token      *)
(* protection: lines 259-1327).                                            *)
(*                                                                         *)
(* JavaScript values are modelled as follows.                              *)
(*   - an object is a function from its own keys to values; a key that is  *)
(*     absent is the JavaScript value undefined;                           *)
(*   - a string is a sequence of one-character strings, so that            *)
(*     toLowerCase and includes are computed character by character;       *)
(*   - a number is a record [m, e] standing for m * 10^e (see Num below);  *)
(*   - a call that throws yields Thrown(..), a call that returns yields    *)
(*     Ok(..).                                                             *)
(***************************************************************************)
EXTENDS Integers, Sequences, FiniteSets, Bags, TLC

VARIABLES
    tokenLimits,   \* this.tokenLimits, fixed by the constructor
    sprutClient,   \* this.sprutClient: "null", "connected" or "unconnected"
    env,           \* process.env: the SPRUTHUB_* connection variables that are set
    inventory,     \* the accessories the hub holds (data of listAccessories)
    op,            \* name of the operation that ran last
    input,         \* its arguments
    output,        \* what it returned or threw
    walk,          \* a caller paging through one listing, page by page
    calls,         \* what the operation that ran last called, in order
    fetched,       \* the array listAccessories handed to it, as it left it
    inflight       \* the tool calls in flight, each with the await it stands at

vars == <<tokenLimits, sprutClient, env, inventory, op, input, output, walk, calls, fetched, inflight>>

-----------------------------------------------------------------------------
(* Results of calls *)

Ok(v) == [ok |-> TRUE, value |-> v]
Thrown(msg) == [ok |-> FALSE, error |-> msg]

\* F(x) as JavaScript evaluates a call: the argument first, and once, then
\* F of its value
applied(F(_), x) == CHOOSE y \in {F(v) : v \in {x}} : TRUE

(* Objects: own keys, spread, property test *)

Has(o, k) == k \in DOMAIN o
EmptyObject == <<>>
Prop(k, v) == [x \in {k} |-> v]
\* { ...a, ...b }
Spread(a, b) == b @@ a
\* the objects that have key k with a value of S, or lack it
Optional(k, S) == {EmptyObject} \cup {Prop(k, v) : v \in S}

-----------------------------------------------------------------------------
(* Strings: the sequence of their characters, a character outside ASCII  *)
(* written as its code point                                              *)

UpperCase == <<"A", "B", "C", "D", "E", "F", "G", "H", "I", "J", "K", "L", "M",
               "N", "O", "P", "Q", "R", "S", "T", "U", "V", "W", "X", "Y", "Z", "U+0414">>
LowerCase == <<"a", "b", "c", "d", "e", "f", "g", "h", "i", "j", "k", "l", "m",
               "n", "o", "p", "q", "r", "s", "t", "u", "v", "w", "x", "y", "z", "U+0434">>

toLowerChar(c) ==
    IF \E i \in 1..Len(UpperCase) : UpperCase[i] = c
    THEN LowerCase[CHOOSE i \in 1..Len(UpperCase) : UpperCase[i] = c]
    ELSE c

\* String.prototype.toLowerCase
toLowerCase(s) == [i \in 1..Len(s) |-> toLowerChar(s[i])]

\* String.prototype.includes
includes(s, t) ==
    \E i \in 0..(Len(s) - Len(t)) : SubSeq(s, i + 1, i + Len(t)) = t

-----------------------------------------------------------------------------
(* Numbers.  Num(m, e) is the number m * 10^e, in one of four shapes:      *)
(*   e = 0    the integer m;                                               *)
(*   e = -1   m tenths, m no multiple of 10 (1.5 is Num(15, -1));          *)
(*   e = -7   a number below 10^-6 in size, m in -9..9 and not 0;          *)
(*   e = 21   a number of at least 10^21 in size, m in -9..9 and not 0.    *)
(* Number.prototype.toString writes the first two shapes in decimal        *)
(* notation ("20", "1.5") and the last two in exponent notation ("5e-7",   *)
(* "1e+21").                                                               *)

Num(m, e) == [m |-> m, e |-> e]
Whole(n) == Num(n, 0)

\* Math.min and Math.max of two integers
min(a, b) == IF a < b THEN a ELSE b
max(a, b) == IF a > b THEN a ELSE b

abs(n) == IF n < 0 THEN -n ELSE n
sign(n) == IF n < 0 THEN -1 ELSE 1

\* parseInt(x) of a number x: x is converted to a string, and the digits up
\* to the first character that is no digit are read
parseInt(x) ==
    CASE x.e = 0 -> x.m
      [] x.e = -1 -> sign(x.m) * (abs(x.m) \div 10)
      [] OTHER -> x.m

\* !x of a number
falsy(x) == x.m = 0

\* x > n, n an integer
greaterThan(x, n) ==
    CASE x.e = 0 -> x.m > n
      [] x.e = -1 -> x.m > 10 * n
      [] x.e = -7 -> IF x.m > 0 THEN n <= 0 ELSE n < 0
      [] OTHER -> x.m > 0

\* Math.min(x, n), n an integer
mathMin(x, n) == IF greaterThan(x, n) THEN Whole(n) ELSE x

\* Math.floor(x), the floor of x
floor(x) ==
    CASE x.e = 0 -> x
      [] x.e = -1 -> Whole(x.m \div 10)
      [] x.e = -7 -> IF x.m > 0 THEN Whole(0) ELSE Whole(-1)
      [] OTHER -> x

-----------------------------------------------------------------------------
(* The capability map of the device-type filter, index.js 596-608 *)

K_air_quality == <<"a", "i", "r", "_", "q", "u", "a", "l", "i", "t", "y">>
K_temperature == <<"t", "e", "m", "p", "e", "r", "a", "t", "u", "r", "e">>
K_humidity == <<"h", "u", "m", "i", "d", "i", "t", "y">>
K_co2 == <<"c", "o", "2">>
K_pm25 == <<"p", "m", "2", "5">>
K_pm10 == <<"p", "m", "1", "0">>
K_voc == <<"v", "o", "c">>
K_light == <<"l", "i", "g", "h", "t">>
K_switch == <<"s", "w", "i", "t", "c", "h">>
K_motion == <<"m", "o", "t", "i", "o", "n">>
K_contact == <<"c", "o", "n", "t", "a", "c", "t">>

typeMapKeys ==
    {K_air_quality, K_temperature, K_humidity, K_co2, K_pm25, K_pm10, K_voc,
     K_light, K_switch, K_motion, K_contact}

typeMap(k) ==
    CASE k = K_air_quality ->
            <<<<"a", "i", "r", "q", "u", "a", "l", "i", "t", "y", "s", "e", "n", "s", "o", "r">>,
              <<"a", "i", "r", "q", "u", "a", "l", "i", "t", "y">>>>
      [] k = K_temperature ->
            <<<<"t", "e", "m", "p", "e", "r", "a", "t", "u", "r", "e">>,
              <<"c", "u", "r", "r", "e", "n", "t", "t", "e", "m", "p", "e", "r", "a", "t", "u", "r", "e">>>>
      [] k = K_humidity ->
            <<<<"h", "u", "m", "i", "d", "i", "t", "y">>,
              <<"c", "u", "r", "r", "e", "n", "t", "r", "e", "l", "a", "t", "i", "v", "e",
                "h", "u", "m", "i", "d", "i", "t", "y">>>>
      [] k = K_co2 ->
            <<<<"c", "a", "r", "b", "o", "n", "d", "i", "o", "x", "i", "d", "e">>,
              <<"c", "o", "2">>>>
      [] k = K_pm25 ->
            <<<<"p", "m", "2", "_", "5", "d", "e", "n", "s", "i", "t", "y">>,
              <<"p", "m", "2", "5">>>>
      [] k = K_pm10 ->
            <<<<"p", "m", "1", "0", "d", "e", "n", "s", "i", "t", "y">>,
              <<"p", "m", "1", "0">>>>
      [] k = K_voc ->
            <<<<"v", "o", "c", "d", "e", "n", "s", "i", "t", "y">>,
              <<"v", "o", "c">>>>
      [] k = K_light ->
            <<<<"b", "r", "i", "g", "h", "t", "n", "e", "s", "s">>,
              <<"h", "u", "e">>,
              <<"s", "a", "t", "u", "r", "a", "t", "i", "o", "n">>,
              <<"o", "n">>>>
      [] k = K_switch ->
            <<<<"o", "n">>,
              <<"s", "w", "i", "t", "c", "h">>>>
      [] k = K_motion ->
            <<<<"m", "o", "t", "i", "o", "n", "d", "e", "t", "e", "c", "t", "e", "d">>,
              <<"m", "o", "t", "i", "o", "n">>>>
      [] k = K_contact ->
            <<<<"c", "o", "n", "t", "a", "c", "t", "s", "e", "n", "s", "o", "r", "s", "t", "a", "t", "e">>,
              <<"c", "o", "n", "t", "a", "c", "t">>>>

\* typeMap is an object literal: a key it does not own is looked up on
\* Object.prototype.  typeSearch is lower-cased, so the inherited properties
\* it can name are these two; their values are truthy and are no arrays.
K_constructor == <<"c", "o", "n", "s", "t", "r", "u", "c", "t", "o", "r">>
K___proto__ == <<"_", "_", "p", "r", "o", "t", "o", "_", "_">>
objectPrototypeKeys == {K_constructor, K___proto__}

-----------------------------------------------------------------------------
(* Lookups of the hub client (package spruthub-client) *)

\* Sprut.getDevicesByRoom(accessories, roomId)
getDevicesByRoom(accessories, roomId) ==
    SelectSeq(accessories, LAMBDA acc : Has(acc, "roomId") /\ acc.roomId = roomId)

\* control.write === true
isWritable(char) ==
    Has(char, "control") /\ Has(char.control, "write") /\ char.control.write = TRUE

writableCharacteristics(service) ==
    IF Has(service, "characteristics")
    THEN {k \in 1..Len(service.characteristics) : isWritable(service.characteristics[k])}
    ELSE {}

\* Sprut.getControllableCharacteristics(accessories): one entry for every
\* characteristic with control.write === true
getControllableCharacteristics(accessories) ==
    UNION {UNION {{[accessoryId |-> accessories[i].id, sId |-> j, cId |-> k] :
                      k \in writableCharacteristics(accessories[i].services[j])} :
                  j \in 1..Len(accessories[i].services)} :
           i \in {n \in 1..Len(accessories) : Has(accessories[n], "services")}}

-----------------------------------------------------------------------------
(* applyAccessoryFilters, index.js 541-651 *)

\* Array.prototype.some: the elements are visited in order and
\* the visit stops at the first callback that returns true or that throws;
\* a callback's outcome is "true", "false" or "throw"
some(s, Outcome(_)) ==
    LET hits == {i \in 1..Len(s) : Outcome(s[i]) # "false"}
    IN  IF hits = {} THEN "false"
        ELSE Outcome(s[CHOOSE i \in hits : \A j \in hits : i <= j])

\* index.js 591-619: the callback of service.characteristics.some
charMatches(char, typeSearch) ==
    IF ~Has(char, "type") \/ char.type = <<>> THEN "false"
    ELSE LET charType == toLowerCase(char.type)
         IN  IF typeSearch \in typeMapKeys
             THEN IF \E n \in 1..Len(typeMap(typeSearch)) :
                        includes(charType, toLowerCase(typeMap(typeSearch)[n]))
                  THEN "true" ELSE "false"
             ELSE IF typeSearch \in objectPrototypeKeys
             THEN "throw"   \* typeMap[typeSearch].some is not a function
             ELSE IF includes(charType, typeSearch) THEN "true" ELSE "false"

\* index.js 583-623: the callback of acc.services.some
serviceMatches(service, typeSearch) ==
    IF Has(service, "type") /\ service.type # <<>>
          /\ includes(toLowerCase(service.type), typeSearch)
    THEN "true"
    ELSE IF Has(service, "characteristics")
    THEN some(service.characteristics, LAMBDA char : charMatches(char, typeSearch))
    ELSE "false"

\* index.js 579-624: the callback of filtered.filter for deviceTypeFilter
deviceTypeMatches(acc, typeSearch) ==
    IF ~Has(acc, "services") THEN "false"
    ELSE some(acc.services, LAMBDA service : serviceMatches(service, typeSearch))

truthyFlag(o, k) == Has(o, k) /\ o[k] = TRUE
truthyString(o, k) == Has(o, k) /\ o[k] # <<>>

\* index.js 555-558
roomStage(filtered, filters) ==
    IF Has(filters, "roomId") THEN getDevicesByRoom(filtered, filters.roomId) ELSE filtered

\* controllableStage with the position in the list taken for the accessory id
controllableStageByIndex(filtered, filters) ==
    IF truthyFlag(filters, "controllableOnly")
    THEN LET controllable == getControllableCharacteristics(filtered)
             controllableIds == {c.accessoryId : c \in controllable}
             kept == {i \in 1..Len(filtered) : (i - 1) \in controllableIds}
             RECURSIVE pick(_)
             pick(i) == IF i > Len(filtered) THEN <<>>
                        ELSE (IF i \in kept THEN <<filtered[i]>> ELSE <<>>) \o pick(i + 1)
         IN  pick(1)
    ELSE filtered

\* index.js 560-565
controllableStage(filtered, filters) ==
    IF truthyFlag(filters, "controllableOnly")
    THEN LET controllable == getControllableCharacteristics(filtered)
             controllableIds == {c.accessoryId : c \in controllable}
         IN  SelectSeq(filtered, LAMBDA acc : acc.id \in controllableIds)
    ELSE filtered

\* index.js 567-574
nameStage(filtered, filters) ==
    IF truthyString(filters, "nameFilter")
    THEN LET nameSearch == toLowerCase(filters.nameFilter)
         IN  SelectSeq(filtered, LAMBDA acc :
                 IF ~truthyString(acc, "name") THEN FALSE
                 ELSE includes(toLowerCase(acc.name), nameSearch))
    ELSE filtered

\* index.js 576-625
deviceTypeStage(filtered, filters) ==
    IF truthyString(filters, "deviceTypeFilter")
    THEN LET typeSearch == toLowerCase(filters.deviceTypeFilter)
         IN  IF \E i \in 1..Len(filtered) : deviceTypeMatches(filtered[i], typeSearch) = "throw"
             THEN Thrown("TypeError")
             ELSE Ok(SelectSeq(filtered, LAMBDA acc : deviceTypeMatches(acc, typeSearch) = "true"))
    ELSE Ok(filtered)

\* index.js 628-633
manufacturerStage(filtered, filters) ==
    IF truthyString(filters, "manufacturerFilter")
    THEN LET mfgSearch == toLowerCase(filters.manufacturerFilter)
         IN  SelectSeq(filtered, LAMBDA acc :
                 truthyString(acc, "manufacturer")
                 /\ includes(toLowerCase(acc.manufacturer), mfgSearch))
    ELSE filtered

\* index.js 636-641
modelStage(filtered, filters) ==
    IF truthyString(filters, "modelFilter")
    THEN LET modelSearch == toLowerCase(filters.modelFilter)
         IN  SelectSeq(filtered, LAMBDA acc :
                 truthyString(acc, "model") /\ includes(toLowerCase(acc.model), modelSearch))
    ELSE filtered

\* statusStage with the offlineOnly test made first
statusStageOfflineFirst(filtered, filters) ==
    IF truthyFlag(filters, "offlineOnly")
    THEN SelectSeq(filtered, LAMBDA acc : Has(acc, "online") /\ acc.online = FALSE)
    ELSE IF truthyFlag(filters, "onlineOnly")
    THEN SelectSeq(filtered, LAMBDA acc : Has(acc, "online") /\ acc.online = TRUE)
    ELSE filtered

\* index.js 643-648
statusStage(filtered, filters) ==
    IF truthyFlag(filters, "onlineOnly")
    THEN SelectSeq(filtered, LAMBDA acc : Has(acc, "online") /\ acc.online = TRUE)
    ELSE IF truthyFlag(filters, "offlineOnly")
    THEN SelectSeq(filtered, LAMBDA acc : Has(acc, "online") /\ acc.online = FALSE)
    ELSE filtered

applyAccessoryFilters(accessories, filters) ==
    LET typed == deviceTypeStage(
                     nameStage(controllableStage(roomStage(accessories, filters), filters),
                               filters),
                     filters)
    IN  IF ~typed.ok THEN typed
        ELSE Ok(statusStage(modelStage(manufacturerStage(typed.value, filters), filters),
                            filters))

-----------------------------------------------------------------------------
(* getSmartDefaults, index.js 674-698 *)

\* 679-682: the summary rule, with two variants of it: one that fires from
\* the threshold on, one that overrides what the caller set
autoSummaryFromThreshold(totalCount, defaults) ==
    IF totalCount >= tokenLimits.autoSummaryThreshold /\ ~Has(defaults, "summary")
    THEN Spread(defaults, Prop("summary", TRUE)) ELSE defaults
autoSummaryOverriding(totalCount, defaults) ==
    IF totalCount > tokenLimits.autoSummaryThreshold
    THEN Spread(defaults, Prop("summary", TRUE)) ELSE defaults
autoSummary(totalCount, defaults) ==
    IF totalCount > tokenLimits.autoSummaryThreshold /\ ~Has(defaults, "summary")
    THEN Spread(defaults, Prop("summary", TRUE)) ELSE defaults

\* 685-688: the limit rule, with a variant that only fills a limit left out.
\* !defaults.limit holds of a limit that is undefined or 0, and
\* Math.min(defaults.limit || 10, 10) is 10 whenever the rule fires
autoLimitWhenUnset(totalCount, defaults) ==
    IF totalCount > 50 /\ ~Has(defaults, "limit")
    THEN Spread(defaults, Prop("limit", Whole(10))) ELSE defaults
autoLimit(totalCount, defaults) ==
    IF totalCount > 50 /\ (~Has(defaults, "limit") \/ falsy(defaults.limit)
                           \/ greaterThan(defaults.limit, 10))
    THEN Spread(defaults, Prop("limit",
             IF ~Has(defaults, "limit") \/ falsy(defaults.limit)
             THEN mathMin(Whole(10), 10) ELSE mathMin(defaults.limit, 10)))
    ELSE defaults

\* 691-694: the metadata-only rule, with a variant that fires from 100 on
autoMetaOnlyFromHundred(totalCount, defaults) ==
    IF totalCount >= 100 /\ ~Has(defaults, "metaOnly")
    THEN Spread(defaults, Prop("metaOnly", TRUE)) ELSE defaults
autoMetaOnly(totalCount, defaults) ==
    IF totalCount > 100 /\ ~Has(defaults, "metaOnly")
    THEN Spread(defaults, Prop("metaOnly", TRUE)) ELSE defaults

getSmartDefaults(totalCount, requestedParams) ==
    IF ~tokenLimits.forceSmartDefaults THEN requestedParams        \* 675, 677
    ELSE autoMetaOnly(totalCount,
             autoLimit(totalCount, autoSummary(totalCount, requestedParams)))

-----------------------------------------------------------------------------
(* Texts, measured.  A text is a sequence of runs; Run(n, w) is n          *)
(* characters that JSON.stringify writes with w characters each: 1 for an  *)
(* ordinary character, 2 for a quote, a backslash or a line feed.  No run   *)
(* is empty and no two adjacent runs have the same w.                      *)

Run(n, w) == [n |-> n, w |-> w]
plain(n) == IF n = 0 THEN <<>> ELSE <<Run(n, 1)>>
escaped(n) == IF n = 0 THEN <<>> ELSE <<Run(n, 2)>>

\* a + b
concat(a, b) ==
    IF a = <<>> THEN b
    ELSE IF b = <<>> THEN a
    ELSE IF a[Len(a)].w = b[1].w
    THEN SubSeq(a, 1, Len(a) - 1) \o <<Run(a[Len(a)].n + b[1].n, b[1].w)>> \o Tail(b)
    ELSE a \o b

\* the characters of the runs lo..hi of t
lengthOfRuns(t, lo, hi) == BagCardinality([i \in lo..hi |-> t[i].n])

\* text.length
length(t) == lengthOfRuns(t, 1, Len(t))

\* the characters JSON.stringify writes for the characters of t
written(t) == BagCardinality([i \in 1..Len(t) |-> t[i].n * t[i].w])

RECURSIVE prefixOfRuns(_, _, _, _)
\* the first k characters of the runs lo..hi of t, 1 <= k
prefixOfRuns(t, lo, hi, k) ==
    IF lo = hi THEN <<Run(min(k, t[lo].n), t[lo].w)>>
    ELSE IF k <= lengthOfRuns(t, lo, (lo + hi) \div 2)
    THEN prefixOfRuns(t, lo, (lo + hi) \div 2, k)
    ELSE SubSeq(t, lo, (lo + hi) \div 2)
         \o prefixOfRuns(t, (lo + hi) \div 2 + 1, hi,
                         k - lengthOfRuns(t, lo, (lo + hi) \div 2))

\* text.substring(0, k)
substring(t, k) ==
    IF t = <<>> \/ k <= 0 THEN <<>>
    ELSE IF k >= length(t) THEN t
    ELSE prefixOfRuns(t, 1, Len(t), k)

RECURSIVE digits(_)
\* the length of `${n}`, n >= 0
digits(n) == IF n < 10 THEN 1 ELSE 1 + digits(n \div 10)

RECURSIVE stringifyBlocks(_)
stringifyBlocks(content) ==
    IF content = <<>> THEN 0
    ELSE 21 + Len(content[1].type) + written(content[1].text)
         + (IF Len(content) > 1 THEN 1 ELSE 0) + stringifyBlocks(Tail(content))

\* JSON.stringify(content).length for an array of { type, text } blocks:
\* [{"type":"text","text":"..."},...]
stringifyLength(content) == 2 + stringifyBlocks(content)

-----------------------------------------------------------------------------
(* checkResponseSize, truncateResponse, processResponse: index.js 700-755 *)

\* the banner of index.js 721 and 725, without the line feed
banner(originalSize) ==
    plain(27 + digits(originalSize) + 9 + digits(tokenLimits.maxResponseSize) + 7)

\* '\n... [TRUNCATED - Use pagination or summary mode for full data]'
truncationMarker == concat(escaped(1), plain(62))

\* index.js 700-709; warned stands for the warning logged
checkResponseSize(content) ==
    LET size == stringifyLength(content)
    IN  [size |-> size, warned |-> size > tokenLimits.warnThreshold]

\* index.js 733-738: the loop body, applied to one block of an array of n
truncateItem(item, n) ==
    IF item.type = "text"
    THEN LET maxTextLength == (tokenLimits.maxResponseSize \div n) - 200
         IN  IF length(item.text) > maxTextLength /\ maxTextLength > 100
             THEN [item EXCEPT !.text = concat(substring(item.text, maxTextLength),
                                               truncationMarker)]
             ELSE item
    ELSE item

\* leftAsIs without the test of the truncation switch
leftAsIsWhenSmall(originalSize) == originalSize <= tokenLimits.maxResponseSize

\* index.js 712: the guard of truncateResponse
leftAsIs(originalSize) ==
    ~tokenLimits.enableTruncation \/ originalSize <= tokenLimits.maxResponseSize

\* truncateResponse returns an array; the blocks of that array are the very
\* objects of the caller's array (a shallow copy, index.js 717), so what it
\* assigns to them shows in the caller's content as well.
\*   returned: the array returned;  content: the caller's array afterwards
truncateResponse(content, originalSize) ==
    IF leftAsIs(originalSize)
    THEN [returned |-> content, content |-> content, truncated |-> FALSE]
    ELSE LET firstIsText == Len(content) > 0 /\ content[1].type = "text"
             \* 720-727
             bannered ==
                 IF firstIsText
                 THEN <<[content[1] EXCEPT !.text =
                             concat(concat(banner(originalSize), escaped(1)), content[1].text)]>>
                      \o Tail(content)
                 ELSE <<[type |-> "text", text |-> banner(originalSize)]>> \o content
             \* 730-740
             totalSize == stringifyLength(bannered)
             truncatedContent ==
                 IF totalSize > tokenLimits.maxResponseSize
                 THEN [i \in 1..Len(bannered) |-> truncateItem(bannered[i], Len(bannered))]
                 ELSE bannered
         IN  [returned |-> truncatedContent,
              content |-> IF firstIsText THEN truncatedContent ELSE Tail(truncatedContent),
              truncated |-> TRUE]

\* index.js 747-755
processResponse(content) ==
    LET checked == checkResponseSize(content)
    IN  IF checked.size > tokenLimits.maxResponseSize
        THEN Spread(truncateResponse(content, checked.size), [warned |-> checked.warned])
        ELSE [returned |-> content, content |-> content, truncated |-> FALSE,
              warned |-> checked.warned]

-----------------------------------------------------------------------------
(* JSON.stringify(value, null, 2), measured.  A value to print is          *)
(*   [t |-> "number", v |-> n], [t |-> "boolean", v |-> b],                *)
(*   [t |-> "string", v |-> s], [t |-> "array", v |-> <<values>>] or       *)
(*   [t |-> "object", v |-> <<[key |-> k, value |-> value], ..>>].         *)
(* Strings hold letters and digits; the quotes and line feeds of the       *)
(* printed text are the characters written escaped when the text is        *)
(* serialized again.                                                       *)

jsonNumber(n) == [t |-> "number", v |-> n]
jsonBoolean(b) == [t |-> "boolean", v |-> b]
jsonString(str) == [t |-> "string", v |-> str]
jsonArray(items) == [t |-> "array", v |-> items]
jsonObject(members) == [t |-> "object", v |-> members]

\* the members of object o for its keys among `keys`, in that order
members(o, keys, ValueOf(_, _)) ==
    LET present == SelectSeq(keys, LAMBDA k : Has(o, k))
    IN  [i \in 1..Len(present) |-> [key |-> present[i], value |-> ValueOf(present[i], o[present[i]])]]

quoted(n) == concat(concat(escaped(1), plain(n)), escaped(1))

RECURSIVE runsOf(_, _, _)
\* the runs of the texts parts[lo], .., parts[hi], one text after the other
runsOf(parts, lo, hi) ==
    IF lo = hi THEN parts[lo]
    ELSE runsOf(parts, lo, (lo + hi) \div 2) \o runsOf(parts, (lo + hi) \div 2 + 1, hi)

\* the text of runs t in the form concat keeps: no empty run, and no two
\* runs of one width in a row
normal(t) ==
    IF t = <<>> THEN <<>> ELSE
    LET runs == SelectSeq(t, LAMBDA r : r.n > 0)
        first == SelectSeq([i \in 1..Len(runs) |-> i],
                           LAMBDA i : i = 1 \/ runs[i].w # runs[i - 1].w)
    IN  [k \in 1..Len(first) |->
            Run(lengthOfRuns(runs, first[k],
                             IF k < Len(first) THEN first[k + 1] - 1 ELSE Len(runs)),
                runs[first[k]].w)]

\* what is printed of a value that is no array and no object
scalarRuns(v) ==
    CASE v.t = "number" -> plain((IF v.v < 0 THEN 1 ELSE 0) + digits(abs(v.v)))
      [] v.t = "boolean" -> plain(IF v.v THEN 4 ELSE 5)
      [] v.t = "string" -> quoted(Len(v.v))

\* element i of array or object v printed at indentation `indent`: what
\* comes before its value (the opening bracket and line feed before the
\* first element; the indentation; key and ": " in an object), and what
\* comes after it (a comma after all but the last element; line feed;
\* indentation and closing bracket after the last element)
beforeElement(v, i, indent) ==
    (IF i = 1 THEN plain(1) \o escaped(1) ELSE <<>>)
    \o plain(indent + 2)
    \o (IF v.t = "object" THEN quoted(Len(v.v[i].key)) \o plain(2) ELSE <<>>)
element(v, i) == IF v.t = "object" THEN v.v[i].value ELSE v.v[i]
afterElement(v, i, indent) ==
    (IF i < Len(v.v) THEN plain(1) ELSE <<>>)
    \o escaped(1)
    \o (IF i = Len(v.v) THEN plain(indent + 1) ELSE <<>>)

RECURSIVE printedRuns(_)
\* the runs of at.v printed at indentation at.indent: a scalar as it is; an
\* array or object as its elements printed, each between what comes before
\* and after it, or as its two brackets when it has no element
printedRuns(at) ==
    IF at.v.t \notin {"array", "object"} THEN scalarRuns(at.v)
    ELSE LET printed == [i \in 1..Len(at.v.v) |->
                            printedRuns([v |-> element(at.v, i), indent |-> at.indent + 2])]
         IN  IF Len(printed) = 0 THEN plain(2)
             ELSE runsOf([i \in 1..Len(printed) |->
                             beforeElement(at.v, i, at.indent) \o printed[i]
                             \o afterElement(at.v, i, at.indent)],
                         1, Len(printed))

prettyRuns(v, indent) == printedRuns([v |-> v, indent |-> indent])

\* the text of value v printed at indentation `indent`
pretty(v, indent) == normal(prettyRuns(v, indent))

characteristicJson(char) ==
    jsonObject(members(char, <<"type", "value", "control">>,
        LAMBDA k, x : CASE k = "type" -> jsonString(x)
                        [] k = "value" -> jsonNumber(x)
                        [] OTHER -> jsonObject(members(x, <<"write">>,
                                                       LAMBDA k2, x2 : jsonBoolean(x2)))))

serviceJson(service) ==
    jsonObject(members(service, <<"type", "characteristics">>,
        LAMBDA k, x : IF k = "type" THEN jsonString(x)
                      ELSE jsonArray([i \in 1..Len(x) |-> characteristicJson(x[i])])))

\* an accessory, or the summary of one
accessoryJson(acc) ==
    jsonObject(members(acc,
        <<"id", "name", "manufacturer", "model", "online", "roomId", "services",
          "servicesCount", "controllable">>,
        LAMBDA k, x :
            CASE k \in {"id", "roomId", "servicesCount"} -> jsonNumber(x)
              [] k \in {"name", "manufacturer", "model"} -> jsonString(x)
              [] k \in {"online", "controllable"} -> jsonBoolean(x)
              [] OTHER -> jsonArray([i \in 1..Len(x) |-> serviceJson(x[i])])))

-----------------------------------------------------------------------------
(* buildFilterDescription, index.js 653-671.  parts names the clauses      *)
(* pushed, text is the string returned.                                    *)

joinParts(texts) ==
    LET RECURSIVE from(_)
        from(i) == IF i > Len(texts) THEN <<>>
                   ELSE concat(concat(texts[i], IF i < Len(texts) THEN plain(2) ELSE <<>>),
                               from(i + 1))
    IN  from(1)

buildFilterDescription(filters) ==
    LET clause(present, name, text) ==
            IF present THEN <<[name |-> name, text |-> text]>> ELSE <<>>
        parts ==
            clause(Has(filters, "roomId"), "in room",
                   plain(8 + (IF Has(filters, "roomId") THEN digits(filters.roomId) ELSE 0)))
            \o clause(truthyFlag(filters, "controllableOnly"), "controllable only", plain(17))
            \o clause(truthyString(filters, "nameFilter"), "name contains",
                      concat(plain(14), quoted(IF Has(filters, "nameFilter")
                                               THEN Len(filters.nameFilter) ELSE 0)))
            \o clause(truthyString(filters, "deviceTypeFilter"), "type",
                      concat(plain(6), quoted(IF Has(filters, "deviceTypeFilter")
                                              THEN Len(filters.deviceTypeFilter) ELSE 0)))
            \o clause(truthyString(filters, "manufacturerFilter"), "manufacturer contains",
                      concat(plain(22), quoted(IF Has(filters, "manufacturerFilter")
                                               THEN Len(filters.manufacturerFilter) ELSE 0)))
            \o clause(truthyString(filters, "modelFilter"), "model contains",
                      concat(plain(15), quoted(IF Has(filters, "modelFilter")
                                               THEN Len(filters.modelFilter) ELSE 0)))
            \o clause(truthyFlag(filters, "onlineOnly"), "online only", plain(11))
            \o clause(truthyFlag(filters, "offlineOnly"), "offline only", plain(12))
    IN  [parts |-> [i \in 1..Len(parts) |-> parts[i].name],
         text |-> IF Len(parts) > 0
                  THEN concat(concat(plain(2), joinParts([i \in 1..Len(parts) |-> parts[i].text])),
                              plain(1))
                  ELSE <<>>]

-----------------------------------------------------------------------------
(* ensureConnected, index.js 757-785.  connects tells whether connected()  *)
(* of a new client resolves.                                               *)

\* the four variables read at index.js 759-762
ConnectionSettings ==
    {"SPRUTHUB_WS_URL", "SPRUTHUB_EMAIL", "SPRUTHUB_PASSWORD", "SPRUTHUB_SERIAL"}

\* index.js 765
missingParameters ==
    "Not connected and missing required connection parameters. Set environment variables: "
        \o "SPRUTHUB_WS_URL, SPRUTHUB_EMAIL, SPRUTHUB_PASSWORD, SPRUTHUB_SERIAL"

\* index.js 764 with the test left out
settingsMissingNever(settings) == FALSE

\* index.js 764: !wsUrl || !sprutEmail || !sprutPassword || !serial
settingsMissing(settings) == \E name \in ConnectionSettings : name \notin settings

ensureConnected(connects) ==
    IF sprutClient = "null"
    THEN IF settingsMissing(env)
         THEN [client |-> "null", result |-> Thrown(missingParameters), calls |-> <<>>]
         ELSE IF connects
         THEN [client |-> "connected", result |-> Ok("connected"),
               calls |-> <<"new Sprut", "connected">>]
         ELSE [client |-> "unconnected", result |-> Thrown("Failed to connect: refused"),
               calls |-> <<"new Sprut", "connected">>]
    ELSE [client |-> sprutClient, result |-> Ok("connected"), calls |-> <<>>]

-----------------------------------------------------------------------------
(* handleListAccessories, index.js 893-1034 *)

\* the filter keys a handler takes from its arguments; a flag that is
\* undefined or false is taken as false (index.js 907-916, 925-938, 1040-1049)
filterKeys ==
    <<"roomId", "controllableOnly", "nameFilter", "deviceTypeFilter", "manufacturerFilter",
      "modelFilter", "onlineOnly", "offlineOnly">>

filterArgs(args) ==
    LET flag(k) == Prop(k, truthyFlag(args, k))
        given(k) == IF Has(args, k) THEN Prop(k, args[k]) ELSE EmptyObject
    IN  given("roomId") @@ flag("controllableOnly") @@ given("nameFilter")
        @@ given("deviceTypeFilter") @@ given("manufacturerFilter") @@ given("modelFilter")
        @@ flag("onlineOnly") @@ flag("offlineOnly")

\* Math.ceil(a / b), a >= 0 and b >= 1
ceilDiv(a, b) == (a + b - 1) \div b

\* index.js 951
totalPagesOf(totalCount, pageSize) == ceilDiv(totalCount, pageSize)

\* index.js 952, with its variant that takes pages as numbered from 0
startIndexFromZero(pageNum, pageSize) == pageNum * pageSize
startIndexOf(pageNum, pageSize) == (pageNum - 1) * pageSize

\* Array.prototype.slice(startIndex, endIndex), 0 <= startIndex <= endIndex
slice(s, startIndex, endIndex) == SubSeq(s, startIndex + 1, min(endIndex, Len(s)))

plural(n) == IF n # 1 THEN 3 ELSE 1

\* summaryOf with controllable taken from the presence of control
summaryOfAnyControl(acc) ==
    LET copied == [k \in (DOMAIN acc) \cap {"id", "name", "manufacturer", "model", "online",
                                            "roomId"} |-> acc[k]]
    IN  Spread(copied,
            [servicesCount |-> IF Has(acc, "services") THEN Len(acc.services) ELSE 0,
             controllable |->
                 IF Has(acc, "services")
                 THEN \E j \in 1..Len(acc.services) :
                         /\ Has(acc.services[j], "characteristics")
                         /\ \E k \in 1..Len(acc.services[j].characteristics) :
                               Has(acc.services[j].characteristics[k], "control")
                 ELSE FALSE])

\* index.js 991-1002: the summary of one accessory; a property that is
\* undefined is left out, and control.write is a boolean as the hub sends it
summaryOf(acc) ==
    LET copied == [k \in (DOMAIN acc) \cap {"id", "name", "manufacturer", "model", "online",
                                            "roomId"} |-> acc[k]]
    IN  Spread(copied,
            [servicesCount |-> IF Has(acc, "services") THEN Len(acc.services) ELSE 0,
             controllable |->
                 IF Has(acc, "services")
                 THEN \E j \in 1..Len(acc.services) :
                         /\ Has(acc.services[j], "characteristics")
                         /\ \E k \in 1..Len(acc.services[j].characteristics) :
                               LET c == acc.services[j].characteristics[k]
                               IN  Has(c, "control") /\ Has(c.control, "write")
                                   /\ c.control.write = TRUE
                 ELSE FALSE])

\* no array of accessories was handed to the operation
NotFetched == [kind |-> "none"]

\* the callback of map writing the summary into the accessory it is given
projectedInPlace(acc) == [item |-> summaryOf(acc), source |-> Spread(acc, summaryOf(acc))]

\* index.js 991-1003: the callback of map: the object literal it returns, and
\* the accessory it was given as the callback leaves it
projected(acc) == [item |-> summaryOf(acc), source |-> acc]

\* index.js 957-1029: the response for the page paginatedAccessories of
\* accessories
listResponse(accessories, paginatedAccessories, filters, summary, metaOnly, pageNum, pageSize) ==
    LET totalCount == Len(accessories)                          \* 950
        totalPages == totalPagesOf(totalCount, pageSize)
        paging == [totalCount |-> totalCount, totalPages |-> totalPages,
                   currentPage |-> pageNum, pageSize |-> pageSize,
                   hasMore |-> pageNum < totalPages]
    IN  IF metaOnly
        THEN \* 963-986
             Ok([content |-> processResponse(
                     <<[type |-> "text",
                        text |-> concat(plain(6 + digits(totalCount) + 9 + plural(totalCount)),
                                        buildFilterDescription(filters).text)],
                       [type |-> "text",
                        text |-> plain(13 + digits(totalPages) + 7 + digits(pageNum) + 4
                                       + digits(totalPages) + 2 + digits(pageSize) + 16)]>>
                     ).returned,
                 _meta |-> Spread(paging,
                     [filters |-> Spread(filters,
                                     [summary |-> summary, metaOnly |-> metaOnly])])])
        ELSE \* 988-1029
             LET responseData ==
                     IF summary
                     THEN [i \in 1..Len(paginatedAccessories) |->
                              projected(paginatedAccessories[i]).item]
                     ELSE paginatedAccessories
             IN  applied(LAMBDA content :
                     Ok([content |-> processResponse(content).returned,
                         _meta |-> Spread(paging,
                             [accessories |-> responseData,
                              filters |-> Spread(filters, [summary |-> summary])])]),
                     \* 1007-1016
                     <<[type |-> "text",
                        text |-> concat(plain(5 + digits(pageNum) + 1 + digits(totalPages)
                                              + 10 + digits(Len(paginatedAccessories)) + 4
                                              + digits(totalCount) + 9 + plural(totalCount)),
                                        buildFilterDescription(filters).text)],
                       [type |-> "text",
                        text |-> normal(plain(13)
                                    \o prettyRuns(jsonArray([i \in 1..Len(responseData) |->
                                                      accessoryJson(responseData[i])]), 0))]>>)

\* metaOnlyOf with the default taken for true
metaOnlyUnlessRefused(merged) == IF Has(merged, "metaOnly") THEN merged.metaOnly ELSE TRUE

\* index.js 931: metaOnly of the merged arguments, false when absent
metaOnlyOf(merged) == IF Has(merged, "metaOnly") THEN merged.metaOnly ELSE FALSE

\* listPage with the totals taken of the page cut out
listPageOfThePage(accessories, merged) ==
    LET page == IF Has(merged, "page") THEN merged.page ELSE Whole(1)
        limit == IF Has(merged, "limit") THEN merged.limit ELSE Whole(20)
        pageNum == max(1, parseInt(page))
        pageSize == min(tokenLimits.maxDevicesPerPage, max(1, parseInt(limit)))
        startIndex == startIndexOf(pageNum, pageSize)
        endIndex == startIndex + pageSize
    IN  listResponse(slice(accessories, startIndex, endIndex),
                     slice(accessories, startIndex, endIndex), filterArgs(merged),
                     IF Has(merged, "summary") THEN merged.summary ELSE TRUE,
                     metaOnlyOf(merged),
                     pageNum, pageSize)

\* index.js 925-954: the arguments merged with the smart defaults, the page
\* number and size resolved from them, and the page cut out of accessories
listPage(accessories, merged) ==
    LET page == IF Has(merged, "page") THEN merged.page ELSE Whole(1)
        limit == IF Has(merged, "limit") THEN merged.limit ELSE Whole(20)
        \* 941-945
        pageNum == max(1, parseInt(page))
        pageSize == min(tokenLimits.maxDevicesPerPage, max(1, parseInt(limit)))
        \* 952-953
        startIndex == startIndexOf(pageNum, pageSize)
        endIndex == startIndex + pageSize
    IN  listResponse(accessories, slice(accessories, startIndex, endIndex), filterArgs(merged),
                     IF Has(merged, "summary") THEN merged.summary ELSE TRUE,
                     metaOnlyOf(merged),
                     pageNum, pageSize)

\* index.js 919-938: preFiltered is what applyAccessoryFilters returned or
\* threw on the fetched accessories
listFiltered(args, preFiltered) ==
    IF ~preFiltered.ok THEN preFiltered
    ELSE listPage(preFiltered.value,
                  Spread(args, getSmartDefaults(Len(preFiltered.value), args)))

\* accessoriesOf answering every call with the array handed to the call
\* answered before it
accessoriesCached(fetch) ==
    IF fetched.kind = "fetched" THEN fetched.data
    ELSE IF Has(fetch, "data") THEN fetch.data ELSE <<>>

\* index.js 904, 1057: result.data || [], the accessories of this call's own
\* answer
accessoriesOf(fetch) == IF Has(fetch, "data") THEN fetch.data ELSE <<>>

\* index.js 897-1029: the body of the try block, given what listAccessories
\* did: fetch.kind is "success" (with data), "failure" (isSuccess false,
\* with or without a message) or "throw"
listAccessoriesBody(args, fetch) ==
    IF fetch.kind = "throw" THEN Thrown(fetch.message)
    ELSE IF fetch.kind = "failure"
    THEN Thrown("API Error: " \o (IF Has(fetch, "message") THEN fetch.message
                                  ELSE "Unknown error"))
    ELSE listFiltered(args, applyAccessoryFilters(accessoriesOf(fetch), filterArgs(args)))

\* index.js 897-1029: what the try block calls, in order, up to its return
\* or to the first call or test that throws
listAccessoriesCalls(args, fetch) ==
    <<"listAccessories">>
    \o (IF fetch.kind # "success" THEN <<>>
        ELSE <<"applyAccessoryFilters">>
             \o (IF ~applyAccessoryFilters(fetch.data, filterArgs(args)).ok THEN <<>>
                 ELSE <<"getSmartDefaults", "slice", "buildFilterDescription",
                        "processResponse">>))

\* index.js 542-650: filtered starts as the array given (542) and every
\* filter that runs assigns a new array to it; with no filter running the
\* array returned is the array given
returnsItsArgument(filters) ==
    /\ ~Has(filters, "roomId")
    /\ ~truthyFlag(filters, "controllableOnly")
    /\ ~truthyString(filters, "nameFilter")
    /\ ~truthyString(filters, "deviceTypeFilter")
    /\ ~truthyString(filters, "manufacturerFilter")
    /\ ~truthyString(filters, "modelFilter")
    /\ ~truthyFlag(filters, "onlineOnly")
    /\ ~truthyFlag(filters, "offlineOnly")

\* index.js 904-1005: the array listAccessories handed to
\* handleListAccessories as the handler leaves it, and which arrays the
\* handler built. Nothing is assigned to the array or through it; the
\* callback of map (991) is the one code that is given its accessories one
\* by one, those of the page. preFiltered is the array fetched or a new one
\* (920), paginatedAccessories comes of slice (954) and responseData of map
\* (991) or is paginatedAccessories (1005).
listAccessoriesFetched(args, fetch, handled) ==
    IF fetch.kind # "success"
          \/ ~\E i \in 1..Len(handled.calls) : handled.calls[i] = "listAccessories"
    THEN NotFetched
    ELSE LET returned == handled.result.ok /\ Has(handled.result.value._meta, "accessories")
             mapped == returned /\ handled.result.value._meta.filters.summary
             onPage == IF mapped
                       THEN {handled.result.value._meta.accessories[i].id :
                                i \in 1..Len(handled.result.value._meta.accessories)}
                       ELSE {}
         IN  [kind |-> "fetched",
              data |-> [i \in 1..Len(fetch.data) |->
                           IF fetch.data[i].id \in onPage THEN projected(fetch.data[i]).source
                           ELSE fetch.data[i]],
              filtered |-> IF ~applyAccessoryFilters(fetch.data, filterArgs(args)).ok
                           THEN "none"
                           ELSE IF returnsItsArgument(filterArgs(args))
                           THEN "the array fetched"
                           ELSE "a new array",
              returned |-> IF returned THEN "a new array" ELSE "none",
              items |-> IF ~returned THEN "none"
                        ELSE IF mapped THEN "new objects" ELSE "the accessories fetched"]

\* index.js 1055-1088: the array listAccessories handed to
\* handleCountAccessories as the handler leaves it: only its length after
\* the filters is read (1070), and no collection is returned
countAccessoriesFetched(args, fetch, handled) ==
    IF fetch.kind # "success"
          \/ ~\E i \in 1..Len(handled.calls) : handled.calls[i] = "listAccessories"
    THEN NotFetched
    ELSE [kind |-> "fetched",
          data |-> fetch.data,
          filtered |-> IF ~applyAccessoryFilters(fetch.data, filterArgs(args)).ok
                       THEN "none"
                       ELSE IF returnsItsArgument(filterArgs(args)) THEN "the array fetched"
                       ELSE "a new array",
          returned |-> "none",
          items |-> "none"]

\* the catch block throwing again what it caught
rethrownAsCaught(body, prefix) == body

\* the catch block of a handler (index.js 1030-1033, 1089-1092): what the
\* try block threw is thrown again behind the handler's prefix
rethrown(body, prefix) == IF body.ok THEN body ELSE Thrown(prefix \o body.error)

\* a handler after ensureConnected: what it returns or throws, and
\* this.sprutClient afterwards
connectedThen(connection, body, made) ==
    [client |-> connection.client,
     result |-> IF connection.result.ok THEN body ELSE connection.result,
     calls |-> IF connection.result.ok THEN connection.calls \o made ELSE connection.calls]

\* handleListAccessories(args)
handleListAccessories(args, connects, fetch) ==
    applied(LAMBDA handled :
                Spread(handled, [fetched |-> listAccessoriesFetched(args, fetch, handled)]),
            connectedThen(ensureConnected(connects),
                          rethrown(listAccessoriesBody(args, fetch),
                                   "Failed to list accessories: "),
                          listAccessoriesCalls(args, fetch)))

-----------------------------------------------------------------------------
(* handleCountAccessories, index.js 1036-1093 *)

\* index.js 1070-1088
countResponse(count, filters) ==
    Ok([content |-> processResponse(
            <<[type |-> "text",
               text |-> concat(plain(digits(count) + 9 + plural(count)),
                               buildFilterDescription(filters).text)]>>).returned,
        _meta |-> [count |-> count, filters |-> filters]])

\* index.js 1059-1088: accessories is what applyAccessoryFilters returned or
\* threw
countFiltered(accessories, filters) ==
    IF ~accessories.ok THEN accessories
    ELSE countResponse(Len(accessories.value), filters)

\* index.js 1039-1088: the body of the try block
countAccessoriesBody(args, fetch) ==
    IF fetch.kind = "throw" THEN Thrown(fetch.message)
    ELSE IF fetch.kind = "failure"
    THEN Thrown("API Error: " \o (IF Has(fetch, "message") THEN fetch.message
                                  ELSE "Unknown error"))
    ELSE countFiltered(applyAccessoryFilters(accessoriesOf(fetch), filterArgs(args)),
                       filterArgs(args))

\* index.js 1039-1088: what the try block calls, in order
countAccessoriesCalls(args, fetch) ==
    <<"listAccessories">>
    \o (IF fetch.kind # "success" THEN <<>>
        ELSE <<"applyAccessoryFilters">>
             \o (IF ~applyAccessoryFilters(fetch.data, filterArgs(args)).ok THEN <<>>
                 ELSE <<"buildFilterDescription", "processResponse">>))

\* handleCountAccessories(args)
handleCountAccessories(args, connects, fetch) ==
    applied(LAMBDA handled :
                Spread(handled, [fetched |-> countAccessoriesFetched(args, fetch, handled)]),
            connectedThen(ensureConnected(connects),
                          rethrown(countAccessoriesBody(args, fetch),
                                   "Failed to count accessories: "),
                          countAccessoriesCalls(args, fetch)))

-----------------------------------------------------------------------------
(* handleGetDeviceInfo, index.js 1095-1149 *)

\* `${x}` of a property that is a string, or undefined
shown(o, k) == IF Has(o, k) THEN plain(Len(o[k])) ELSE plain(9)

\* `${n}` of a property that is a number, or undefined
shownNumber(o, k) == IF Has(o, k) THEN plain(digits(o[k])) ELSE plain(9)

\* parseInt(args.accessoryId): the integer n of a number, NaN of undefined
accessoryIdOf(args) ==
    IF Has(args, "accessoryId") THEN [nan |-> FALSE, n |-> parseInt(args.accessoryId)]
    ELSE [nan |-> TRUE]

\* Sprut.getDeviceInfo(accessories, id): the accessory with that id, found
\* or not
getDeviceInfo(accessories, id) ==
    LET found == SelectSeq(accessories, LAMBDA acc : ~id.nan /\ acc.id = id.n)
    IN  IF found = <<>> THEN [found |-> FALSE] ELSE [found |-> TRUE, device |-> found[1]]

\* the controllable characteristics of one accessory, in the order of its
\* services and their characteristics
controllableOf(acc) ==
    LET all == getControllableCharacteristics(<<acc>>)
        before(c, d) == c.sId < d.sId \/ (c.sId = d.sId /\ c.cId < d.cId)
    IN  [n \in 1..Cardinality(all) |->
            CHOOSE c \in all : Cardinality({d \in all : before(d, c)}) = n - 1]

controllableJson(c) ==
    jsonObject(<<[key |-> "accessoryId", value |-> jsonNumber(c.accessoryId)],
                 [key |-> "sId", value |-> jsonNumber(c.sId)],
                 [key |-> "cId", value |-> jsonNumber(c.cId)]>>)

\* index.js 1114-1145: the response for the device found
deviceInfoResponse(args, deviceInfo, controllable) ==
    applied(LAMBDA content :
        Ok([content |-> processResponse(content).returned,
            _meta |-> Spread(Spread([device |-> deviceInfo,
                                     controllableCharacteristics |-> controllable,
                                     accessoryId |-> accessoryIdOf(args).n],
                                    IF Has(deviceInfo, "online")
                                    THEN [isOnline |-> deviceInfo.online] ELSE EmptyObject),
                             IF Has(deviceInfo, "roomId")
                             THEN [roomId |-> deviceInfo.roomId] ELSE EmptyObject)]),
        <<[type |-> "text",
           text |-> normal(runsOf(<<plain(7), escaped(1), shown(deviceInfo, "name"), escaped(1),
                                    plain(6 + digits(args.accessoryId.m) + 4),
                                    shown(deviceInfo, "manufacturer"), plain(1),
                                    shown(deviceInfo, "model")>>, 1, 8))],
          [type |-> "text",
           text |-> normal(runsOf(<<plain(8 + (IF truthyFlag(deviceInfo, "online") THEN 6 ELSE 7)
                                          + 12),
                                    shownNumber(deviceInfo, "roomId"),
                                    plain(33 + digits(Len(controllable)))>>, 1, 3))],
          [type |-> "text",
           text |-> normal(plain(18) \o prettyRuns(
                        jsonObject(<<[key |-> "device", value |-> accessoryJson(deviceInfo)],
                                     [key |-> "controllableCharacteristics",
                                      value |-> jsonArray([i \in 1..Len(controllable) |->
                                                    controllableJson(controllable[i])])]>>),
                        0))]>>)

\* index.js 1099-1145: the body of the try block
deviceInfoBody(args, fetch) ==
    IF fetch.kind = "throw" THEN Thrown(fetch.message)
    ELSE IF fetch.kind = "failure"
    THEN Thrown("API Error: " \o (IF Has(fetch, "message") THEN fetch.message
                                  ELSE "Unknown error"))
    ELSE LET deviceInfo == getDeviceInfo(fetch.data, accessoryIdOf(args))
         IN  IF ~deviceInfo.found
             THEN Thrown("Device with ID "
                         \o (IF Has(args, "accessoryId") THEN ToString(args.accessoryId.m)
                             ELSE "undefined")
                         \o " not found")
             ELSE deviceInfoResponse(args, deviceInfo.device, controllableOf(deviceInfo.device))

\* what the try block calls, in order
deviceInfoCalls(args, fetch) ==
    <<"listAccessories">>
    \o (IF fetch.kind # "success" THEN <<>>
        ELSE <<"getDeviceInfo">>
             \o (IF ~getDeviceInfo(fetch.data, accessoryIdOf(args)).found THEN <<>>
                 ELSE <<"getControllableCharacteristics", "processResponse">>))

\* handleGetDeviceInfo(args)
handleGetDeviceInfo(args, connects, fetch) ==
    connectedThen(ensureConnected(connects),
                  rethrown(deviceInfoBody(args, fetch), "Failed to get device info: "),
                  deviceInfoCalls(args, fetch))

-----------------------------------------------------------------------------
(* handleExecute, handleListRooms, handleListHubs, handleVersion and        *)
(* handleUsageGuide: index.js 787-891, 1151-1264.  What the hub answers is  *)
(* [kind |-> "success", data |-> ..] (data may be absent),                  *)
(* [kind |-> "failure", ..] for a result with isSuccess false, or           *)
(* [kind |-> "throw", message |-> ..].                                      *)

\* result.message || 'Unknown error' behind 'API Error: ' (index.js 822, 863)
apiError(fetch) ==
    Thrown("API Error: " \o (IF Has(fetch, "message") THEN fetch.message ELSE "Unknown error"))

\* result.data || []
dataOf(fetch) == IF Has(fetch, "data") THEN fetch.data ELSE <<>>

\* index.js 790-810: the body of handleExecute; the hub's answer is printed
\* whatever it says
executeBody(executed) ==
    IF executed.kind = "throw" THEN Thrown(executed.message)
    ELSE applied(LAMBDA content : Ok([content |-> processResponse(content).returned]),
                 <<[type |-> "text",
                    text |-> normal(plain(31) \o prettyRuns(executed.data, 0))]>>)

\* handleExecute(args)
handleExecute(args, connects, executed) ==
    connectedThen(ensureConnected(connects),
                  rethrown(executeBody(executed), "Failed to execute command: "),
                  <<"execute">>
                  \o (IF executed.kind = "throw" THEN <<>> ELSE <<"processResponse">>))

\* index.js 826-830: id, name and visible of a room
roomSummaryOf(room) == [k \in (DOMAIN room) \cap {"id", "name", "visible"} |-> room[k]]

roomJson(room) ==
    jsonObject(members(room, <<"id", "name", "visible">>,
        LAMBDA k, x : CASE k = "id" -> jsonNumber(x)
                        [] k = "name" -> jsonString(x)
                        [] OTHER -> jsonBoolean(x)))

\* index.js 819-847: the body of handleListRooms
listRoomsBody(fetch) ==
    IF fetch.kind = "throw" THEN Thrown(fetch.message)
    ELSE IF fetch.kind = "failure" THEN apiError(fetch)
    ELSE LET rooms == dataOf(fetch)
             roomSummary == [i \in 1..Len(rooms) |-> roomSummaryOf(rooms[i])]
         IN  applied(LAMBDA content :
                 Ok([content |-> processResponse(content).returned,
                     _meta |-> [rooms |-> roomSummary, totalCount |-> Len(rooms)]]),
                 <<[type |-> "text", text |-> plain(6 + digits(Len(rooms)) + 29)],
                   [type |-> "text",
                    text |-> normal(plain(7) \o prettyRuns(
                                 jsonArray([i \in 1..Len(roomSummary) |->
                                               roomJson(roomSummary[i])]), 0))]>>)

\* handleListRooms()
handleListRooms(connects, fetch) ==
    connectedThen(ensureConnected(connects),
                  rethrown(listRoomsBody(fetch), "Failed to list rooms: "),
                  <<"listRooms">>
                  \o (IF fetch.kind = "success" THEN <<"processResponse">> ELSE <<>>))

hubJson(hub) ==
    jsonObject(members(hub, <<"id", "name", "online">>,
        LAMBDA k, x : CASE k = "id" -> jsonNumber(x)
                        [] k = "name" -> jsonString(x)
                        [] OTHER -> jsonBoolean(x)))

\* index.js 860-886: the body of handleListHubs
listHubsBody(fetch) ==
    IF fetch.kind = "throw" THEN Thrown(fetch.message)
    ELSE IF fetch.kind = "failure" THEN apiError(fetch)
    ELSE LET hubs == dataOf(fetch)
         IN  applied(LAMBDA content :
                 Ok([content |-> processResponse(content).returned,
                     _meta |-> [hubs |-> hubs, totalCount |-> Len(hubs)]]),
                 <<[type |-> "text",
                    text |-> plain(6 + digits(Len(hubs)) + 13
                                   + (IF Len(hubs) # 1 THEN 1 ELSE 0))],
                   [type |-> "text",
                    text |-> normal(plain(6) \o prettyRuns(
                                 jsonArray([i \in 1..Len(hubs) |-> hubJson(hubs[i])]), 0))]>>)

\* handleListHubs()
handleListHubs(connects, fetch) ==
    connectedThen(ensureConnected(connects),
                  rethrown(listHubsBody(fetch), "Failed to list hubs: "),
                  <<"listHubs">>
                  \o (IF fetch.kind = "success" THEN <<"processResponse">> ELSE <<>>))

\* index.js 1154-1167: the body of handleVersion
versionBody(fetch) ==
    IF fetch.kind = "throw" THEN Thrown(fetch.message)
    ELSE applied(LAMBDA content : Ok([content |-> processResponse(content).returned]),
                 <<[type |-> "text",
                    text |-> normal(plain(16) \o prettyRuns(fetch.data, 0))]>>)

\* handleVersion()
handleVersion(connects, fetch) ==
    connectedThen(ensureConnected(connects),
                  rethrown(versionBody(fetch), "Failed to get version: "),
                  <<"version">> \o (IF fetch.kind = "throw" THEN <<>> ELSE <<"processResponse">>))

\* index.js 1182-1184: the length of the data of a result, 0 for a result
\* with isSuccess false
countOf(fetch) == IF fetch.kind = "success" THEN Len(dataOf(fetch)) ELSE 0

\* index.js 1186-1207: efficiency and the recommendations, each
\* recommendation as its text measured
guidance(deviceCount) ==
    IF deviceCount > 100
    THEN [efficiency |-> "requires-filtering",
          recommendations |-> <<plain(77), plain(60), plain(63), plain(60)>>]
    ELSE IF deviceCount > 50
    THEN [efficiency |-> "needs-pagination",
          recommendations |-> <<plain(64), plain(41), plain(47)>>]
    ELSE IF deviceCount > 10
    THEN [efficiency |-> "use-summary", recommendations |-> <<plain(55), plain(36)>>]
    ELSE [efficiency |-> "optimal", recommendations |-> <<plain(62)>>]

\* recommendations.join('\n')
joinedLines(lines) ==
    runsOf([i \in 1..Len(lines) |-> lines[i] \o (IF i < Len(lines) THEN escaped(1) ELSE <<>>)],
           1, Len(lines))

\* index.js 1212-1247: the text of the guide
guideParts(hubCount, roomCount, deviceCount, efficiency, recommendations) ==
    <<
            plain(28), escaped(1), plain(54), escaped(1), plain(6 + digits(hubCount)), escaped(1),
            plain(9 + digits(roomCount)), escaped(1), plain(9 + digits(deviceCount)), escaped(1),
            plain(12 + Len(efficiency)), escaped(2), plain(30), escaped(1), plain(54), escaped(1),
            plain(25 + digits(tokenLimits.maxResponseSize)), escaped(1),
            plain(18 + digits(tokenLimits.maxDevicesPerPage)), escaped(1),
            plain(25 + digits(tokenLimits.warnThreshold)), escaped(1),
            plain(16 + (IF tokenLimits.forceSmartDefaults THEN 7 ELSE 8)), escaped(1),
            plain(33 + digits(tokenLimits.autoSummaryThreshold)), escaped(2), plain(31),
            escaped(1), plain(54), escaped(1), joinedLines(recommendations), escaped(2), plain(25),
            escaped(1), plain(42), escaped(1), plain(53), escaped(1), plain(62), escaped(1),
            plain(61), escaped(1), plain(61), escaped(1), plain(52), escaped(2), plain(30),
            escaped(1), plain(54), escaped(1), plain(64), escaped(1), plain(33), escaped(1),
            plain(5), escaped(1), plain(26), escaped(1), plain(47), escaped(1), plain(11),
            escaped(1), plain(16), escaped(1), plain(40), escaped(1), plain(12), escaped(1),
            plain(35), escaped(1), plain(6), escaped(1), plain(22), escaped(1), plain(42),
            escaped(1), plain(11), escaped(1), plain(16), escaped(1), plain(59), escaped(1),
            plain(68)
    >>

guideText(hubCount, roomCount, deviceCount, efficiency, recommendations) ==
    applied(LAMBDA parts : normal(runsOf(parts, 1, Len(parts))),
            guideParts(hubCount, roomCount, deviceCount, efficiency, recommendations))

\* index.js 1176-1259: the body of handleUsageGuide; a request that throws
\* ends it, a result with isSuccess false counts as nothing
usageGuideBody(rooms, accessories, hubs) ==
    IF rooms.kind = "throw" THEN Thrown(rooms.message)
    ELSE IF accessories.kind = "throw" THEN Thrown(accessories.message)
    ELSE IF hubs.kind = "throw" THEN Thrown(hubs.message)
    ELSE LET advice == guidance(countOf(accessories))
         IN  applied(LAMBDA content :
                 Ok([content |-> processResponse(content).returned,
                     _meta |-> [systemStats |-> [rooms |-> countOf(rooms),
                                                 devices |-> countOf(accessories),
                                                 hubs |-> countOf(hubs)],
                                efficiency |-> advice.efficiency,
                                tokenLimits |-> tokenLimits,
                                recommendations |-> advice.recommendations]]),
                 <<[type |-> "text",
                    text |-> guideText(countOf(hubs), countOf(rooms), countOf(accessories),
                                       advice.efficiency, advice.recommendations)]>>)

\* what the try block of handleUsageGuide calls, in order
usageGuideCalls(rooms, accessories, hubs) ==
    <<"listRooms">>
    \o (IF rooms.kind = "throw" THEN <<>>
        ELSE <<"listAccessories">>
             \o (IF accessories.kind = "throw" THEN <<>>
                 ELSE <<"listHubs">>
                      \o (IF hubs.kind = "throw" THEN <<>> ELSE <<"processResponse">>)))

\* handleUsageGuide()
handleUsageGuide(connects, rooms, accessories, hubs) ==
    connectedThen(ensureConnected(connects),
                  rethrown(usageGuideBody(rooms, accessories, hubs),
                           "Failed to get usage guide: "),
                  usageGuideCalls(rooms, accessories, hubs))

-----------------------------------------------------------------------------
(* handleGetMethodSchema and handleCallMethod of the server built on the    *)
(* method schema, index.js 1745-1835.  Its processResponse returns the      *)
(* content as it is (index.js 1867-1870).                                   *)

\* the methods the schema of the hub client describes
MethodSchemas ==
    [name \in {"accessory.list", "hub.list"} |->
        IF name = "accessory.list"
        THEN [category |-> "accessory", rest |-> [method |-> "GET"], examples |-> <<"list">>]
        ELSE [category |-> "hub", examples |-> <<>>]]

\* Schema.getAvailableMethods().slice(0, 10).join(', ')
availableMethods == "accessory.list, hub.list"

\* Schema.getMethodSchema(methodName)
getMethodSchema(methodName) ==
    IF methodName \in DOMAIN MethodSchemas
    THEN [found |-> TRUE, schema |-> MethodSchemas[methodName]]
    ELSE [found |-> FALSE]

schemaJson(schema) ==
    jsonObject(members(schema, <<"category", "rest", "examples">>,
        LAMBDA k, x :
            CASE k = "category" -> jsonString(x)
              [] k = "rest" -> jsonObject(<<[key |-> "method", value |-> jsonString(x.method)]>>)
              [] OTHER -> jsonArray([i \in 1..Len(x) |-> jsonString(x[i])])))

\* !methodName
methodNameMissing(args) == ~Has(args, "methodName") \/ args.methodName = ""

\* index.js 1756 and 1802
methodNotFound(methodName) ==
    "Method \"" \o methodName \o "\" not found. Available methods: " \o availableMethods

\* index.js 1746-1779: the body of the try block.  The handler makes no use
\* of the hub.
methodSchemaBody(args) ==
    IF methodNameMissing(args) THEN Thrown("methodName parameter is required")
    ELSE IF ~getMethodSchema(args.methodName).found
    THEN Thrown(methodNotFound(args.methodName))
    ELSE LET schema == getMethodSchema(args.methodName).schema
         IN  Ok([content |-> <<[type |-> "text",
                                text |-> normal(runsOf(<<plain(11), escaped(1),
                                                         plain(Len(args.methodName)),
                                                         escaped(1), plain(1)>>, 1, 5))],
                               [type |-> "text", text |-> pretty(schemaJson(schema), 0)]>>,
                 _meta |-> [methodName |-> args.methodName, schema |-> schema,
                            category |-> schema.category, hasRest |-> Has(schema, "rest"),
                            hasExamples |-> Has(schema, "examples")
                                            /\ Len(schema.examples) > 0]])

\* handleGetMethodSchema(args)
handleGetMethodSchema(args) ==
    [client |-> sprutClient,
     result |-> rethrown(methodSchemaBody(args), "Failed to get method schema: "),
     calls |-> IF methodNameMissing(args) THEN <<>> ELSE <<"getMethodSchema">>]

\* index.js 1808-1832: the call of the method and the response, call being
\* what callMethod of the hub client did
callMethodResponse(args, call) ==
    IF call.kind = "throw" THEN Thrown(call.message)
    ELSE Ok([content |-> <<[type |-> "text",
                            text |-> plain(7 + Len(args.methodName) + 13)],
                           [type |-> "text",
                            text |-> normal(plain(8) \o prettyRuns(call.data, 0))]>>,
             _meta |-> [methodName |-> args.methodName,
                        parameters |-> IF Has(args, "parameters") THEN args.parameters
                                       ELSE EmptyObject,
                        result |-> call.data,
                        schema |-> getMethodSchema(args.methodName).schema]])

\* handleCallMethod(args): index.js 1786-1835.  ensureConnected is called
\* inside the try block, after the method name and the schema are tested.
handleCallMethod(args, connects, call) ==
    IF methodNameMissing(args)
    THEN [client |-> sprutClient,
          result |-> rethrown(Thrown("methodName parameter is required"),
                              "Failed to call method: "),
          calls |-> <<>>]
    ELSE IF ~getMethodSchema(args.methodName).found
    THEN [client |-> sprutClient,
          result |-> rethrown(Thrown(methodNotFound(args.methodName)),
                              "Failed to call method: "),
          calls |-> <<"getMethodSchema">>]
    ELSE LET connection == ensureConnected(connects)
         IN  [client |-> connection.client,
              result |-> rethrown(IF connection.result.ok THEN callMethodResponse(args, call)
                                  ELSE connection.result,
                                  "Failed to call method: "),
              calls |-> <<"getMethodSchema">> \o connection.calls
                        \o (IF connection.result.ok THEN <<"callMethod">> ELSE <<>>)]

-----------------------------------------------------------------------------
(* The accessories and filter specs the model draws from *)

S_Air == <<"A", "i", "r">>
S_Lamp == <<"L", "a", "m", "p">>
S_Aqara == <<"A", "q", "a", "r", "a">>
S_T1 == <<"T", "1">>
S_Sensor == <<"S", "e", "n", "s", "o", "r">>
S_Switch == <<"S", "w", "i", "t", "c", "h">>
S_AirQuality == <<"A", "i", "r", "Q", "u", "a", "l", "i", "t", "y">>
S_CurrentTemperature ==
    <<"C", "u", "r", "r", "e", "n", "t", "T", "e", "m", "p", "e", "r", "a", "t", "u", "r", "e">>
S_On == <<"O", "n">>
S_AIR == <<"A", "I", "R">>
S_AQ == <<"A", "Q">>
S_t1 == <<"t", "1">>

\* an air-quality sensor: nothing writable
AirSensor ==
    [name |-> S_Air, manufacturer |-> S_Aqara, model |-> S_T1, online |-> TRUE, roomId |-> 1,
     services |-> <<[type |-> S_Sensor,
                     characteristics |-> <<[type |-> S_AirQuality, value |-> 1,
                                            control |-> [write |-> FALSE]]>>]>>]
\* a switch: one writable characteristic, no model, offline
LampSwitch ==
    [name |-> S_Lamp, manufacturer |-> S_Aqara, online |-> FALSE, roomId |-> 2,
     services |-> <<[type |-> S_Switch,
                     characteristics |-> <<[type |-> S_On, value |-> 0,
                                            control |-> [write |-> TRUE]]>>]>>]
\* a thermometer without a name, whose service has no type and whose first
\* characteristic has no type
Thermometer ==
    [model |-> S_T1, roomId |-> 1, online |-> TRUE,
     services |-> <<[characteristics |-> <<[value |-> 0],
                                           [type |-> S_CurrentTemperature, value |-> 21]>>]>>]
\* an accessory with an empty name and no services, manufacturer, model or
\* online flag
Bare == [name |-> <<>>, roomId |-> 2]

Templates == {AirSensor, LampSwitch, Thermometer, Bare}

\* accessory of template t with identity id
WithId(t, id) == Spread(t, Prop("id", id))

\* the inventories of at most n accessories, ids 1..n in order
Inventories(n) ==
    UNION {{[i \in 1..k |-> WithId(ts[i], i)] : ts \in [1..k -> Templates]} : k \in 0..n}

\* names in two languages, a Cyrillic letter written as its code point
S_DatchikVozdukha ==
    <<"U+0414", "U+0430", "U+0442", "U+0447", "U+0438", "U+043A", " ", "U+0432", "U+043E",
      "U+0437", "U+0434", "U+0443", "U+0445", "U+0430">>
S_AirQualitySensor ==
    <<"A", "i", "r", " ", "Q", "u", "a", "l", "i", "t", "y", " ", "S", "e", "n", "s", "o", "r">>
S_LightSwitch ==
    <<"L", "i", "g", "h", "t", " ", "S", "w", "i", "t", "c", "h">>
S_Xiaomi == <<"X", "i", "a", "o", "m", "i">>
S_Philips == <<"P", "h", "i", "l", "i", "p", "s">>
S_Lutron == <<"L", "u", "t", "r", "o", "n">>

\* three accessories named in Russian and in English: an air sensor of each
\* language and a light switch
NamedInventory ==
    <<[id |-> 1, name |-> S_DatchikVozdukha, manufacturer |-> S_Xiaomi, online |-> TRUE],
      [id |-> 2, name |-> S_AirQualitySensor, manufacturer |-> S_Philips, online |-> TRUE],
      [id |-> 3, name |-> S_LightSwitch, manufacturer |-> S_Lutron, online |-> TRUE]>>

MaxInventory == 3

FilterSpecs ==
    {Spread(Spread(Spread(Spread(Spread(Spread(Spread(a, b), c), d), e), f), g), h) :
        a \in Optional("roomId", {1}),
        b \in Optional("controllableOnly", {TRUE}),
        c \in Optional("nameFilter", {<<>>, S_AIR}),
        d \in Optional("deviceTypeFilter", {K_air_quality, S_On, K_constructor}),
        e \in Optional("manufacturerFilter", {S_AQ}),
        f \in Optional("modelFilter", {S_t1}),
        g \in Optional("onlineOnly", {TRUE}),
        h \in Optional("offlineOnly", {TRUE})}

DefaultLimits ==
    [maxResponseSize |-> 50000, maxDevicesPerPage |-> 20, warnThreshold |-> 30000,
     enableTruncation |-> TRUE, forceSmartDefaults |-> TRUE, autoSummaryThreshold |-> 10]

NoWalk == [active |-> FALSE]

\* no tool call is in flight
NoneInFlight == <<>>

-----------------------------------------------------------------------------
(* SpecFilter: applyAccessoryFilters applied to an inventory, and applied  *)
(* again to its own result                                                 *)

InitFilter ==
    /\ tokenLimits = DefaultLimits
    /\ sprutClient = "connected"
    /\ env = ConnectionSettings
    /\ inventory \in Inventories(MaxInventory) \cup {NamedInventory}
    /\ op = "init"
    /\ input = EmptyObject
    /\ output = EmptyObject
    /\ walk = NoWalk
    /\ calls = <<>>
    /\ fetched = NotFetched
    /\ inflight = NoneInFlight

ApplyFilters(filters) ==
    /\ op = "init"
    /\ op' = "applyAccessoryFilters"
    /\ input' = [accessories |-> inventory, filters |-> filters]
    /\ output' = applyAccessoryFilters(inventory, filters)
    /\ UNCHANGED <<tokenLimits, sprutClient, env, inventory, walk, calls, fetched, inflight>>

ReapplyFilters ==
    /\ op = "applyAccessoryFilters"
    /\ output.ok
    /\ op' = "reapply"
    /\ input' = [accessories |-> output.value, filters |-> input.filters]
    /\ output' = applyAccessoryFilters(output.value, input.filters)
    /\ UNCHANGED <<tokenLimits, sprutClient, env, inventory, walk, calls, fetched, inflight>>

\* the filters applied are described, as the handlers do for their first
\* text (index.js 957-960, 1070-1073)
DescribeFilters ==
    /\ op = "applyAccessoryFilters"
    /\ output.ok
    /\ op' = "buildFilterDescription"
    /\ input' = [filters |-> input.filters]
    /\ output' = buildFilterDescription(input.filters)
    /\ UNCHANGED <<tokenLimits, sprutClient, env, inventory, walk, calls, fetched, inflight>>

\* the result is handed to the caller and nothing of the call is kept
Return ==
    /\ op # "init"
    /\ op' = "init"
    /\ input' = EmptyObject
    /\ output' = EmptyObject
    /\ walk' = NoWalk
    /\ calls' = <<>>
    /\ fetched' = NotFetched
    /\ UNCHANGED <<tokenLimits, sprutClient, env, inventory, inflight>>

NextFilter ==
    \/ \E filters \in FilterSpecs : ApplyFilters(filters)
    \/ ReapplyFilters
    \/ DescribeFilters
    \/ Return

SpecFilter == InitFilter /\ [][NextFilter]_vars

-----------------------------------------------------------------------------
(* Claims about applyAccessoryFilters *)

\* C4: applyAccessoryFilters is idempotent: applied to its own result with
\* the same filter spec it returns that result unchanged.
C4_Idempotent ==
    op = "reapply" => output = Ok(input.accessories)

C4_Witness ==
    /\ op = "reapply"
    /\ output.ok
    /\ Len(output.value) >= 1
    /\ Len(output.value) < Len(inventory)
    /\ truthyFlag(input.filters, "controllableOnly")
    /\ truthyString(input.filters, "manufacturerFilter")

\* the predicates of the filter spec, each stated on one accessory
inRoom(acc, filters) ==
    Has(filters, "roomId") => Has(acc, "roomId") /\ acc.roomId = filters.roomId

isControllable(acc) ==
    /\ Has(acc, "services")
    /\ \E j \in 1..Len(acc.services) :
          /\ Has(acc.services[j], "characteristics")
          /\ \E k \in 1..Len(acc.services[j].characteristics) :
                LET c == acc.services[j].characteristics[k]
                IN  Has(c, "control") /\ Has(c.control, "write") /\ c.control.write = TRUE

fieldContains(acc, field, filters, key) ==
    truthyString(filters, key) =>
        /\ Has(acc, field)
        /\ acc[field] # <<>>
        /\ includes(toLowerCase(acc[field]), toLowerCase(filters[key]))

characteristicHasType(c, token) ==
    /\ Has(c, "type")
    /\ IF token \in typeMapKeys
       THEN \E n \in 1..Len(typeMap(token)) : includes(toLowerCase(c.type), typeMap(token)[n])
       ELSE includes(toLowerCase(c.type), token)

hasDeviceType(acc, filters) ==
    truthyString(filters, "deviceTypeFilter") =>
        LET token == toLowerCase(filters.deviceTypeFilter)
        IN  /\ Has(acc, "services")
            /\ \E j \in 1..Len(acc.services) :
                  \/ /\ Has(acc.services[j], "type")
                     /\ includes(toLowerCase(acc.services[j].type), token)
                  \/ /\ Has(acc.services[j], "characteristics")
                     /\ \E k \in 1..Len(acc.services[j].characteristics) :
                           characteristicHasType(acc.services[j].characteristics[k], token)

hasStatus(acc, filters) ==
    IF truthyFlag(filters, "onlineOnly") THEN Has(acc, "online") /\ acc.online = TRUE
    ELSE IF truthyFlag(filters, "offlineOnly") THEN Has(acc, "online") /\ acc.online = FALSE
    ELSE TRUE

satisfiesAll(acc, filters) ==
    /\ inRoom(acc, filters)
    /\ (truthyFlag(filters, "controllableOnly") => isControllable(acc))
    /\ fieldContains(acc, "name", filters, "nameFilter")
    /\ hasDeviceType(acc, filters)
    /\ fieldContains(acc, "manufacturer", filters, "manufacturerFilter")
    /\ fieldContains(acc, "model", filters, "modelFilter")
    /\ hasStatus(acc, filters)

\* C10: applyAccessoryFilters returns exactly the accessories of the input
\* that satisfy every active predicate, in input order.
C10_ExactlyTheMatching ==
    op = "applyAccessoryFilters" =>
        output = Ok(SelectSeq(input.accessories, LAMBDA acc : satisfiesAll(acc, input.filters)))

\* what holds of C10: whenever applyAccessoryFilters returns, it returns
\* exactly the matching accessories in input order
C10_WhenItReturns ==
    (op = "applyAccessoryFilters" /\ output.ok) =>
        output = Ok(SelectSeq(input.accessories, LAMBDA acc : satisfiesAll(acc, input.filters)))

\* C12: under deviceTypeFilter alone the result is exactly the accessories one
\* of whose services has a type containing the token or a characteristic
\* whose type contains a mapped substring (token a key of the capability map)
\* or the token itself (any other token).
C12_MatchesByTypeOrCapability ==
    (op = "applyAccessoryFilters" /\ DOMAIN input.filters = {"deviceTypeFilter"}) =>
        /\ output.ok
        /\ \A i \in 1..Len(input.accessories) :
              (\E j \in 1..Len(output.value) : output.value[j] = input.accessories[i])
                  <=> hasDeviceType(input.accessories[i], input.filters)

\* what holds of C12: the same, whenever the filter returns
C12_WhenItReturns ==
    (op = "applyAccessoryFilters" /\ DOMAIN input.filters = {"deviceTypeFilter"} /\ output.ok) =>
        \A i \in 1..Len(input.accessories) :
            (\E j \in 1..Len(output.value) : output.value[j] = input.accessories[i])
                <=> hasDeviceType(input.accessories[i], input.filters)

\* the filter spec without its two status flags
statusFree(filters) ==
    [k \in DOMAIN filters \ {"onlineOnly", "offlineOnly"} |-> filters[k]]

\* the accessories of s whose online flag is b
withOnline(s, b) == SelectSeq(s, LAMBDA acc : Has(acc, "online") /\ acc.online = b)

\* C11: with onlineOnly set, offlineOnly set or not, the result is exactly the
\* accessories passing the other predicates whose online flag is true; with
\* offlineOnly alone it is exactly those whose online flag is false.
C11_OnlineOnlyTakesPrecedence ==
    (op = "applyAccessoryFilters" /\ output.ok) =>
        LET others == applyAccessoryFilters(input.accessories, statusFree(input.filters)).value
        IN  /\ truthyFlag(input.filters, "onlineOnly") => output.value = withOnline(others, TRUE)
            /\ (truthyFlag(input.filters, "offlineOnly")
                    /\ ~truthyFlag(input.filters, "onlineOnly"))
                  => output.value = withOnline(others, FALSE)

\* both flags set, on an inventory with an online accessory, an offline one
\* and one without the flag
C11_Witness ==
    /\ op = "applyAccessoryFilters"
    /\ output.ok
    /\ truthyFlag(input.filters, "onlineOnly")
    /\ truthyFlag(input.filters, "offlineOnly")
    /\ output.value # <<>>
    /\ \E i \in 1..Len(input.accessories) :
          Has(input.accessories[i], "online") /\ input.accessories[i].online = FALSE
    /\ \E i \in 1..Len(input.accessories) : ~Has(input.accessories[i], "online")


\* two accessories that differ in their online flag only
OnlineProbe == [id |-> 1, online |-> TRUE]
OfflineProbe == [id |-> 2, online |-> FALSE]

\* the predicates applyAccessoryFilters applies for filters, by the names
\* buildFilterDescription gives them, in the order of the chain; the status
\* predicate applied is told by what statusStage keeps of the two probes
appliedPredicates(filters) ==
    LET named(applies, name) == IF applies THEN <<name>> ELSE <<>>
        kept == statusStage(<<OnlineProbe, OfflineProbe>>, filters)
    IN  named(Has(filters, "roomId"), "in room")
        \o named(Has(filters, "controllableOnly") /\ filters.controllableOnly = TRUE,
                 "controllable only")
        \o named(Has(filters, "nameFilter") /\ filters.nameFilter # <<>>, "name contains")
        \o named(Has(filters, "deviceTypeFilter") /\ filters.deviceTypeFilter # <<>>, "type")
        \o named(Has(filters, "manufacturerFilter") /\ filters.manufacturerFilter # <<>>,
                 "manufacturer contains")
        \o named(Has(filters, "modelFilter") /\ filters.modelFilter # <<>>, "model contains")
        \o named(kept = <<OnlineProbe>>, "online only")
        \o named(kept = <<OfflineProbe>>, "offline only")

\* C30: the filter description names exactly the predicates that
\* applyAccessoryFilters applied for the same arguments, in the order of the
\* chain, and is the empty string exactly when no filter is active; it says
\* "offline only" only when the offline predicate was applied.
C30_DescribesWhatWasApplied ==
    op = "buildFilterDescription" =>
        /\ output.parts = appliedPredicates(input.filters)
        /\ output.text = <<>> <=> appliedPredicates(input.filters) = <<>>

\* what holds of C30: the description names the predicates applied whenever
\* onlineOnly and offlineOnly are not both set
C30_UnlessBothStatusFlags ==
    (/\ op = "buildFilterDescription"
     /\ ~(truthyFlag(input.filters, "onlineOnly") /\ truthyFlag(input.filters, "offlineOnly")))
        => /\ output.parts = appliedPredicates(input.filters)
           /\ output.text = <<>> <=> appliedPredicates(input.filters) = <<>>

\* C24: the name filter looks for the equivalents of the search term in the
\* other language too: with nameFilter "air", in any case, the accessories
\* returned of NamedInventory are the Russian-named air sensor and "Air
\* Quality Sensor", and not "Light Switch".
C24_NameFilterFindsEquivalents ==
    (/\ op = "applyAccessoryFilters"
     /\ input.accessories = NamedInventory
     /\ DOMAIN input.filters = {"nameFilter"}
     /\ toLowerCase(input.filters.nameFilter) = <<"a", "i", "r">>)
        => /\ output.ok
           /\ {output.value[i].name : i \in 1..Len(output.value)}
                 = {S_DatchikVozdukha, S_AirQualitySensor}

\* what holds of C24: the name filter returns the accessories whose name
\* contains the search term itself, both in lower case
C24_NameContainsTheTerm ==
    (/\ op = "applyAccessoryFilters"
     /\ DOMAIN input.filters = {"nameFilter"}
     /\ input.filters.nameFilter # <<>>)
        => output = Ok(SelectSeq(input.accessories, LAMBDA acc :
                          /\ Has(acc, "name")
                          /\ includes(toLowerCase(acc.name),
                                      toLowerCase(input.filters.nameFilter))))

-----------------------------------------------------------------------------
(* SpecDefaults: getSmartDefaults applied to a count and to the display    *)
(* parameters of a request                                                 *)

MaxCount == 102

\* the values of limit a request may carry
Limits ==
    {Whole(-1), Whole(0), Whole(1), Whole(10), Whole(11), Whole(20), Num(5, -1), Num(105, -1),
     Num(5, -7), Num(1, 21)}

DisplayParams ==
    {Spread(Spread(a, b), c) :
        a \in Optional("summary", BOOLEAN),
        b \in Optional("metaOnly", BOOLEAN),
        c \in Optional("limit", Limits)}

\* parseInt(process.env.X) || default: index.js 297-303
Thresholds == {2, 10, 60}

InitDefaults ==
    /\ tokenLimits \in {Spread(DefaultLimits,
                               [forceSmartDefaults |-> f, autoSummaryThreshold |-> t]) :
                           f \in BOOLEAN, t \in Thresholds}
    /\ sprutClient = "connected"
    /\ env = ConnectionSettings
    /\ inventory = <<>>
    /\ op = "init"
    /\ input = EmptyObject
    /\ output = EmptyObject
    /\ walk = NoWalk
    /\ calls = <<>>
    /\ fetched = NotFetched
    /\ inflight = NoneInFlight

GetSmartDefaults(totalCount, requestedParams) ==
    /\ op = "init"
    /\ op' = "getSmartDefaults"
    /\ input' = [totalCount |-> totalCount, requestedParams |-> requestedParams]
    /\ output' = getSmartDefaults(totalCount, requestedParams)
    /\ UNCHANGED <<tokenLimits, sprutClient, env, inventory, walk, calls, fetched, inflight>>

NextDefaults ==
    \/ \E totalCount \in 0..MaxCount, requestedParams \in DisplayParams :
          GetSmartDefaults(totalCount, requestedParams)
    \/ Return

SpecDefaults == InitDefaults /\ [][NextDefaults]_vars

\* the caller's value of key k is returned as it was given
kept(k) ==
    Has(input.requestedParams, k) => Has(output, k) /\ output[k] = input.requestedParams[k]

limitRuleApplies ==
    /\ tokenLimits.forceSmartDefaults
    /\ input.totalCount > 50
    /\ Has(input.requestedParams, "limit")
    /\ (input.requestedParams.limit = Whole(0) \/ greaterThan(input.requestedParams.limit, 10))

returnsSummaryTrue == Has(output, "summary") /\ output.summary = TRUE

summaryRuleApplies ==
    /\ tokenLimits.forceSmartDefaults
    /\ ~Has(input.requestedParams, "summary")
    /\ input.totalCount > tokenLimits.autoSummaryThreshold

explicitFalseStays ==
    (Has(input.requestedParams, "summary") /\ input.requestedParams.summary = FALSE)
        => (Has(output, "summary") /\ output.summary = FALSE)

\* C7 as stated: summary = true is returned exactly when smart defaults are
\* on, summary was unset and totalCount > autoSummaryThreshold; an explicit
\* false stays false; with the feature off the parameters come back unchanged.
C7_SummaryExactlyWhenRuleApplies ==
    op = "getSmartDefaults" =>
        /\ returnsSummaryTrue <=> summaryRuleApplies
        /\ explicitFalseStays
        /\ (~tokenLimits.forceSmartDefaults => output = input.requestedParams)

\* C7 as amended: summary = true is returned exactly when the caller set
\* summary = true or the rule applies (smart defaults on, summary unset,
\* totalCount > autoSummaryThreshold); the rest as stated.
C7_SummaryWhenSetOrRuleApplies ==
    op = "getSmartDefaults" =>
        /\ returnsSummaryTrue <=>
              \/ (Has(input.requestedParams, "summary") /\ input.requestedParams.summary = TRUE)
              \/ summaryRuleApplies
        /\ explicitFalseStays
        /\ (~tokenLimits.forceSmartDefaults => output = input.requestedParams)

C7_Witness ==
    /\ op = "getSmartDefaults"
    /\ tokenLimits.autoSummaryThreshold = 10
    /\ input.totalCount = 11
    /\ summaryRuleApplies
    /\ returnsSummaryTrue

-----------------------------------------------------------------------------
(* SpecSize: processResponse applied to a content *)

MaxBlocks == 2

\* texts of up to 2000 characters: ordinary characters, characters that
\* are written escaped, and both
Texts ==
    {plain(0), plain(120), plain(400), plain(2000), escaped(400), escaped(2000),
     concat(plain(300), escaped(300)), concat(escaped(40), plain(700))}

Blocks == [type : {"text", "image"}, text : Texts]

Contents == UNION {[1..n -> Blocks] : n \in 0..MaxBlocks}

\* parseInt(process.env.SPRUTHUB_MAX_RESPONSE_SIZE) || 50000 and
\* parseInt(process.env.SPRUTHUB_WARN_THRESHOLD) || 30000: index.js 297-299
SizeLimits ==
    {[maxResponseSize |-> 50000, warnThreshold |-> 30000],
     [maxResponseSize |-> 1000, warnThreshold |-> 500],
     [maxResponseSize |-> 300, warnThreshold |-> 200]}

InitSize ==
    /\ tokenLimits \in {Spread(Spread(DefaultLimits, l), [enableTruncation |-> t]) :
                           l \in SizeLimits, t \in BOOLEAN}
    /\ sprutClient = "connected"
    /\ env = ConnectionSettings
    /\ inventory = <<>>
    /\ op = "init"
    /\ input = EmptyObject
    /\ output = EmptyObject
    /\ walk = NoWalk
    /\ calls = <<>>
    /\ fetched = NotFetched
    /\ inflight = NoneInFlight

ProcessResponse(content) ==
    /\ op = "init"
    /\ op' = "processResponse"
    /\ input' = [content |-> content]
    /\ output' = processResponse(content)
    /\ UNCHANGED <<tokenLimits, sprutClient, env, inventory, walk, calls, fetched, inflight>>

NextSize ==
    \/ \E content \in Contents : ProcessResponse(content)
    \/ Return

SpecSize == InitSize /\ [][NextSize]_vars

\* C3: with truncation enabled the serialized length of what processResponse
\* returns never exceeds maxResponseSize.
C3_NeverOverBudget ==
    (op = "processResponse" /\ tokenLimits.enableTruncation) =>
        stringifyLength(output.returned) <= tokenLimits.maxResponseSize

\* C13: processResponse returns the content as it is, blocks and texts, when
\* its serialized size is at most maxResponseSize and when truncation is
\* disabled; a size above the warn threshold is warned of and changes nothing
\* of that.
C13_UnchangedWithinLimitOrDisabled ==
    op = "processResponse" =>
        LET size == stringifyLength(input.content)
        IN  /\ (size <= tokenLimits.maxResponseSize \/ ~tokenLimits.enableTruncation)
                  => /\ output.returned = input.content
                     /\ output.content = input.content
            /\ output.warned <=> size > tokenLimits.warnThreshold

\* truncation disabled, a content of two blocks over the limit
C13_Witness ==
    /\ op = "processResponse"
    /\ ~tokenLimits.enableTruncation
    /\ stringifyLength(input.content) > tokenLimits.maxResponseSize
    /\ Len(input.content) = 2
    /\ output.warned
    /\ output.returned = input.content

\* the content with the banner: at the head of the first block's text when
\* that block is a text block, in a new first block otherwise
withBanner(content, size) ==
    IF Len(content) > 0 /\ content[1].type = "text"
    THEN [i \in 1..Len(content) |->
             IF i = 1
             THEN [type |-> "text",
                   text |-> concat(concat(banner(size), escaped(1)), content[1].text)]
             ELSE content[i]]
    ELSE <<[type |-> "text", text |-> banner(size)]>> \o content

\* the per-block budget for an envelope of n blocks
budgetOf(n) == (tokenLimits.maxResponseSize \div n) - 200

\* a block cut to the budget k and given the marker
cutTo(block, k) == [type |-> block.type, text |-> concat(substring(block.text, k), truncationMarker)]

\* C14: with truncation enabled and a content over maxResponseSize, the output
\* is the content with the banner; if that still exceeds the limit, every text
\* block longer than floor(maxResponseSize / blockCount) - 200 is cut to that
\* budget and given the marker; the output is never the original content.
C14_BannerThenEveryLongBlockCut ==
    (op = "processResponse" /\ tokenLimits.enableTruncation
        /\ stringifyLength(input.content) > tokenLimits.maxResponseSize) =>
        LET bannered == withBanner(input.content, stringifyLength(input.content))
            budget == budgetOf(Len(bannered))
            over == stringifyLength(bannered) > tokenLimits.maxResponseSize
        IN  /\ Len(output.returned) = Len(bannered)
            /\ \A i \in 1..Len(bannered) :
                  output.returned[i] =
                      IF over /\ bannered[i].type = "text" /\ length(bannered[i].text) > budget
                      THEN cutTo(bannered[i], budget)
                      ELSE bannered[i]
            /\ output.returned # input.content

\* what holds of C14: the same, with blocks cut only under a budget above 100
C14_CutUnderBudgetsAbove100 ==
    (op = "processResponse" /\ tokenLimits.enableTruncation
        /\ stringifyLength(input.content) > tokenLimits.maxResponseSize) =>
        LET bannered == withBanner(input.content, stringifyLength(input.content))
            budget == budgetOf(Len(bannered))
            over == stringifyLength(bannered) > tokenLimits.maxResponseSize
        IN  /\ Len(output.returned) = Len(bannered)
            /\ \A i \in 1..Len(bannered) :
                  output.returned[i] =
                      IF over /\ budget > 100 /\ bannered[i].type = "text"
                            /\ length(bannered[i].text) > budget
                      THEN cutTo(bannered[i], budget)
                      ELSE bannered[i]
            /\ output.returned # input.content


\* C27: processResponse and truncateResponse leave the content they are
\* given as it was: after a call, truncating or not, the caller's array and
\* each of its blocks, the text of the first block with them, are unchanged.
C27_ContentLeftAsGiven ==
    op = "processResponse" => output.content = input.content

\* what holds of C27: the caller's array keeps its blocks, in number, order
\* and type; it is their texts that truncation rewrites
C27_OnlyTextsRewritten ==
    op = "processResponse" =>
        /\ Len(output.content) = Len(input.content)
        /\ \A i \in 1..Len(input.content) : output.content[i].type = input.content[i].type
        /\ ~output.truncated => output.content = input.content

-----------------------------------------------------------------------------
(* Spec: the server answering list and count requests, one at a time *)

MaxAccessories == 101
MaxPage == 7

\* the accessories of a hub with n devices
HubInventory(n) ==
    LET kinds == <<AirSensor, LampSwitch, Thermometer, Bare>>
    IN  [i \in 1..n |-> WithId(kinds[((i - 1) % Len(kinds)) + 1], i)]

HubInventories == {HubInventory(n) : n \in {0, 12, 51, MaxAccessories - 1, MaxAccessories}}

\* index.js 297-303, without SPRUTHUB_* variables and with four of them set
ServerLimits ==
    {DefaultLimits,
     Spread(DefaultLimits, [maxResponseSize |-> 1000, maxDevicesPerPage |-> 12,
                            warnThreshold |-> 500, forceSmartDefaults |-> FALSE])}

\* page and limit as requested: integers, fractions, and numbers that
\* Number.prototype.toString writes in exponent notation
Pages == {Whole(-1), Num(25, -1), Whole(MaxPage), Num(5, -7), Num(1, 21)}
PageLimits == {Whole(0), Whole(3), Whole(25), Num(105, -1), Num(1, 21)}

ListFilters ==
    {EmptyObject, [onlineOnly |-> TRUE],
     [deviceTypeFilter |-> K_constructor, controllableOnly |-> FALSE]}

ListArgs ==
    {Spread(Spread(Spread(Spread(f, a), b), c), d) :
        f \in ListFilters,
        a \in Optional("summary", BOOLEAN),
        b \in Optional("metaOnly", BOOLEAN),
        c \in Optional("page", Pages),
        d \in Optional("limit", PageLimits)}

\* what listAccessories of the hub client does
Fetched == [kind |-> "success", data |-> inventory]
Fetches ==
    {Fetched,
     [kind |-> "failure", message |-> "hub error"],
     [kind |-> "failure"],
     [kind |-> "throw", message |-> "timeout"]}

\* process.env with the four connection variables set, with one of them
\* missing, and with none of them
Environments ==
    {ConnectionSettings, {}} \cup {ConnectionSettings \ {name} : name \in ConnectionSettings}

Init ==
    /\ tokenLimits \in ServerLimits
    /\ sprutClient = "null"
    /\ env \in Environments
    /\ inventory \in HubInventories
    /\ op = "init"
    /\ input = EmptyObject
    /\ output = EmptyObject
    /\ walk = NoWalk
    /\ calls = <<>>
    /\ fetched = NotFetched
    /\ inflight = NoneInFlight

\* what the hub did with a request, without the data it sent
answered(fetch) == [k \in DOMAIN fetch \ {"data"} |-> fetch[k]]

\* a handler has run: what it returned or threw, and the client it left
Handled(handled) ==
    /\ output' = handled.result
    /\ sprutClient' = handled.client
    /\ calls' = handled.calls
    /\ fetched' = IF Has(handled, "fetched") THEN handled.fetched ELSE NotFetched

ListAccessories(args, connects, fetch) ==
    /\ op = "init"
    /\ op' = "handleListAccessories"
    /\ input' = [args |-> args, connects |-> connects, fetch |-> answered(fetch)]
    /\ Handled(handleListAccessories(args, connects, fetch))
    /\ UNCHANGED <<tokenLimits, env, inventory, walk, inflight>>

CountAccessories(args, connects, fetch) ==
    /\ op = "init"
    /\ op' = "handleCountAccessories"
    /\ input' = [args |-> args, connects |-> connects, fetch |-> answered(fetch)]
    /\ Handled(handleCountAccessories(args, connects, fetch))
    /\ UNCHANGED <<tokenLimits, env, inventory, walk, inflight>>

DeviceInfoArgs == Optional("accessoryId", {Whole(2), Whole(MaxAccessories + 1)})

GetDeviceInfo(args, connects, fetch) ==
    /\ op = "init"
    /\ op' = "handleGetDeviceInfo"
    /\ input' = [args |-> args, connects |-> connects, fetch |-> answered(fetch)]
    /\ Handled(handleGetDeviceInfo(args, connects, fetch))
    /\ UNCHANGED <<tokenLimits, env, inventory, walk, inflight>>

MethodArgs ==
    {Spread(a, b) :
        a \in Optional("methodName", {"", "accessory.list", "hub.list", "device.reboot"}),
        b \in Optional("parameters", {[expand |-> "services"]})}

\* what callMethod of the hub client does
MethodCalls ==
    {[kind |-> "success",
      data |-> jsonObject(<<[key |-> "isSuccess", value |-> jsonBoolean(TRUE)]>>)],
     [kind |-> "success",
      data |-> jsonObject(<<[key |-> "isSuccess", value |-> jsonBoolean(FALSE)],
                            [key |-> "message", value |-> jsonString("denied")]>>)],
     [kind |-> "throw", message |-> "timeout"]}

GetMethodSchema(args) ==
    /\ op = "init"
    /\ op' = "handleGetMethodSchema"
    /\ input' = [args |-> args]
    /\ Handled(handleGetMethodSchema(args))
    /\ UNCHANGED <<tokenLimits, env, inventory, walk, inflight>>

CallMethod(args, connects, call) ==
    /\ op = "init"
    /\ op' = "handleCallMethod"
    /\ input' = [args |-> args, connects |-> connects, fetch |-> answered(call)]
    /\ Handled(handleCallMethod(args, connects, call))
    /\ UNCHANGED <<tokenLimits, env, inventory, walk, inflight>>

\* what execute and version of the hub client do
ExecuteArgs ==
    {EmptyObject,
     [command |-> "update", accessoryId |-> 2, serviceId |-> 1, characteristicId |-> 1,
      value |-> TRUE]}
VersionAnswers ==
    {[kind |-> "success",
      data |-> jsonObject(<<[key |-> "version", value |-> jsonString("1.2.3")]>>)],
     [kind |-> "throw", message |-> "timeout"]}

\* what listRooms and listHubs of the hub client do
RoomAnswers ==
    {[kind |-> "success",
      data |-> <<[id |-> 1, name |-> "Kitchen", visible |-> TRUE, order |-> 3],
                 [id |-> 2, name |-> "Hall"]>>],
     [kind |-> "success"],
     [kind |-> "failure", message |-> "hub error"],
     [kind |-> "throw", message |-> "timeout"]}
HubAnswers ==
    {[kind |-> "success", data |-> <<[id |-> 1, name |-> "Home", online |-> TRUE]>>],
     [kind |-> "success"],
     [kind |-> "failure"],
     [kind |-> "throw", message |-> "timeout"]}

Execute(args, connects, executed) ==
    /\ op = "init"
    /\ op' = "handleExecute"
    /\ input' = [args |-> args, connects |-> connects, fetch |-> answered(executed)]
    /\ Handled(handleExecute(args, connects, executed))
    /\ UNCHANGED <<tokenLimits, env, inventory, walk, inflight>>

ListRooms(connects, fetch) ==
    /\ op = "init"
    /\ op' = "handleListRooms"
    /\ input' = [connects |-> connects, fetch |-> answered(fetch)]
    /\ Handled(handleListRooms(connects, fetch))
    /\ UNCHANGED <<tokenLimits, env, inventory, walk, inflight>>

ListHubs(connects, fetch) ==
    /\ op = "init"
    /\ op' = "handleListHubs"
    /\ input' = [connects |-> connects, fetch |-> answered(fetch)]
    /\ Handled(handleListHubs(connects, fetch))
    /\ UNCHANGED <<tokenLimits, env, inventory, walk, inflight>>

Version(connects, fetch) ==
    /\ op = "init"
    /\ op' = "handleVersion"
    /\ input' = [connects |-> connects, fetch |-> answered(fetch)]
    /\ Handled(handleVersion(connects, fetch))
    /\ UNCHANGED <<tokenLimits, env, inventory, walk, inflight>>

UsageGuide(connects, rooms, accessories, hubs) ==
    /\ op = "init"
    /\ op' = "handleUsageGuide"
    /\ input' = [connects |-> connects, rooms |-> answered(rooms),
                 fetch |-> answered(accessories), hubs |-> answered(hubs)]
    /\ Handled(handleUsageGuide(connects, rooms, accessories, hubs))
    /\ UNCHANGED <<tokenLimits, env, inventory, walk, inflight>>

\* A call the hub answers is tried with every argument object; a call whose
\* connection or fetch fails is tried with the filter arguments only, the
\* handlers reading nothing else of their arguments before the hub answers.
Next ==
    \/ \E args \in ListArgs : ListAccessories(args, TRUE, Fetched)
    \/ \E args \in ListFilters, connects \in BOOLEAN, fetch \in Fetches :
          ListAccessories(args, connects, fetch)
    \/ \E args \in ListFilters, connects \in BOOLEAN, fetch \in Fetches :
          CountAccessories(args, connects, fetch)
    \/ \E args \in DeviceInfoArgs, connects \in BOOLEAN, fetch \in Fetches :
          GetDeviceInfo(args, connects, fetch)
    \/ \E args \in ExecuteArgs, connects \in BOOLEAN, executed \in MethodCalls :
          Execute(args, connects, executed)
    \/ \E connects \in BOOLEAN, fetch \in RoomAnswers : ListRooms(connects, fetch)
    \/ \E connects \in BOOLEAN, fetch \in HubAnswers : ListHubs(connects, fetch)
    \/ \E connects \in BOOLEAN, fetch \in VersionAnswers : Version(connects, fetch)
    \/ \E connects \in BOOLEAN, rooms \in RoomAnswers, accessories \in Fetches,
          hubs \in HubAnswers : UsageGuide(connects, rooms, accessories, hubs)
    \/ \E args \in MethodArgs : GetMethodSchema(args)
    \/ \E args \in MethodArgs, connects \in BOOLEAN, call \in MethodCalls :
          CallMethod(args, connects, call)
    \/ Return

Spec == Init /\ [][Next]_vars

\* a list call that returned, its arguments and the _meta of its response
listed == op = "handleListAccessories" /\ output.ok
listArgs == input.args
listMeta == output.value._meta

\* the page asked for, and the limit the page size is resolved from
\* (index.js 925-932: the smart defaults over the arguments, then 1 and 20)
requestedPage == IF Has(listArgs, "page") THEN listArgs.page ELSE Whole(1)
resolvedLimit ==
    LET merged == Spread(listArgs, getSmartDefaults(listMeta.totalCount, listArgs))
    IN  IF Has(merged, "limit") THEN merged.limit ELSE Whole(20)

\* max(1, floor(page)), a number
pageByFloor(page) == IF greaterThan(floor(page), 1) THEN floor(page) ELSE Whole(1)
\* clamp(floor(limit), 1, maxPerPage), an integer
sizeByFloor(limit, maxPerPage) ==
    IF greaterThan(floor(limit), maxPerPage) THEN maxPerPage
    ELSE max(1, floor(limit).m)

\* C5: in every list response totalPages = ceil(totalCount / pageSize), and
\* a requested page beyond totalPages yields an empty page with hasMore false
C5_TotalPagesAndPagesBeyond ==
    listed =>
        /\ listMeta.totalPages * listMeta.pageSize >= listMeta.totalCount
        /\ (listMeta.totalPages - 1) * listMeta.pageSize < listMeta.totalCount
                \/ listMeta.totalPages = 0
        /\ listMeta.totalCount = 0 => listMeta.totalPages = 0
        /\ greaterThan(floor(requestedPage), listMeta.totalPages) =>
                /\ listMeta.hasMore = FALSE
                /\ Has(listMeta, "accessories") => listMeta.accessories = <<>>

\* the same with the page as handleListAccessories resolved it
C5_WithThePageResolved ==
    listed =>
        /\ listMeta.totalPages * listMeta.pageSize >= listMeta.totalCount
        /\ (listMeta.totalPages - 1) * listMeta.pageSize < listMeta.totalCount
                \/ listMeta.totalPages = 0
        /\ listMeta.totalCount = 0 => listMeta.totalPages = 0
        /\ listMeta.currentPage > listMeta.totalPages =>
                /\ listMeta.hasMore = FALSE
                /\ Has(listMeta, "accessories") => listMeta.accessories = <<>>

\* C6: with smart defaults enabled and more than 50 accessories passing the
\* filters, getSmartDefaults returns limit 10 for a limit that is unset or
\* above 10, and the page size of the response is at most 10
C6_PageSizeAtMostTenAboveFifty ==
    listed /\ tokenLimits.forceSmartDefaults /\ listMeta.totalCount > 50 =>
        /\ listMeta.pageSize <= 10
        /\ ~Has(listArgs, "limit") \/ greaterThan(listArgs.limit, 10) =>
                getSmartDefaults(listMeta.totalCount, listArgs).limit = Whole(10)

C6_Witness ==
    /\ listed /\ tokenLimits.forceSmartDefaults /\ listMeta.totalCount > 50
    /\ Has(listArgs, "limit") /\ listArgs.limit = Whole(25)
    /\ tokenLimits.maxDevicesPerPage > 10
    /\ listMeta.pageSize = 10

\* whether the response carries metadata only
metadataOnly == ~Has(listMeta, "accessories")

\* C8: with smart defaults enabled, metaOnly unset and more than 100
\* accessories passing the filters the resolved metaOnly is true; with 100 or
\* fewer and metaOnly unset the response is not reduced to metadata
C8_MetaOnlyAboveHundred ==
    listed /\ ~Has(listArgs, "metaOnly") =>
        /\ tokenLimits.forceSmartDefaults /\ listMeta.totalCount > 100 =>
                /\ metadataOnly
                /\ listMeta.filters.metaOnly = TRUE
                /\ getSmartDefaults(listMeta.totalCount, listArgs).metaOnly = TRUE
        /\ listMeta.totalCount <= 100 => ~metadataOnly

C8_Witness ==
    /\ listed /\ ~Has(listArgs, "metaOnly")
    /\ tokenLimits.forceSmartDefaults /\ listMeta.totalCount > 100
    /\ metadataOnly

\* the arguments of a list call merged with the smart defaults for the count
\* of its response, and the metaOnly and summary values resolved from them
resolvedArgs == Spread(listArgs, getSmartDefaults(listMeta.totalCount, listArgs))
resolvedMetaOnly == Has(resolvedArgs, "metaOnly") /\ resolvedArgs.metaOnly = TRUE
resolvedSummary == Has(resolvedArgs, "summary") => resolvedArgs.summary = TRUE

\* the accessories passing the filters of a list call, and those on the page
\* its response names
listMatching == applyAccessoryFilters(inventory, filterArgs(listArgs)).value
currentPageOf(s) ==
    SubSeq(s, (listMeta.currentPage - 1) * listMeta.pageSize + 1,
           min(listMeta.currentPage * listMeta.pageSize, Len(s)))

\* C15: a list response whose resolved metaOnly is true, by the caller or by
\* the smart defaults, has the count and the pagination text blocks only and
\* no accessories in its metadata; one whose resolved metaOnly is false
\* carries the accessories of the current page in its metadata.
C15_MetaOnlyDropsTheAccessories ==
    listed =>
        IF resolvedMetaOnly
        THEN /\ ~Has(listMeta, "accessories")
             /\ Len(output.value.content) = 2
             /\ output.value.content[2].text =
                    plain(13 + digits(listMeta.totalPages) + 7 + digits(listMeta.currentPage) + 4
                          + digits(listMeta.totalPages) + 2 + digits(listMeta.pageSize) + 16)
        ELSE /\ Has(listMeta, "accessories")
             /\ [i \in 1..Len(listMeta.accessories) |-> listMeta.accessories[i].id]
                    = [i \in 1..Len(currentPageOf(listMatching)) |->
                          currentPageOf(listMatching)[i].id]

\* metaOnly resolved to true by the caller on a hub of 12 accessories
C15_Witness ==
    /\ listed
    /\ Has(listArgs, "metaOnly") /\ listArgs.metaOnly = TRUE
    /\ listMeta.totalCount = 12
    /\ ~Has(listMeta, "accessories")

\* _meta.filters of a list response without summary and metaOnly
echoedFilters ==
    [k \in DOMAIN listMeta.filters \ {"summary", "metaOnly"} |-> listMeta.filters[k]]

\* C16: _meta.filters of every list response, with or without accessories,
\* is the resolved filter spec together with the resolved summary and the
\* resolved metaOnly.
C16_FiltersEchoSummaryAndMetaOnly ==
    listed =>
        /\ echoedFilters = filterArgs(resolvedArgs)
        /\ Has(listMeta.filters, "summary") /\ listMeta.filters.summary = resolvedSummary
        /\ Has(listMeta.filters, "metaOnly") /\ listMeta.filters.metaOnly = resolvedMetaOnly

\* what holds of C16: the filter spec and summary are echoed in every list
\* response, metaOnly in those without accessories only
C16_MetaOnlyEchoedInMetaOnlyMode ==
    listed =>
        /\ echoedFilters = filterArgs(resolvedArgs)
        /\ Has(listMeta.filters, "summary") /\ listMeta.filters.summary = resolvedSummary
        /\ IF resolvedMetaOnly
           THEN Has(listMeta.filters, "metaOnly") /\ listMeta.filters.metaOnly = TRUE
           ELSE ~Has(listMeta.filters, "metaOnly")

\* the stages of the response-shaping pipeline
PipelineCalls ==
    {"applyAccessoryFilters", "getSmartDefaults", "slice", "buildFilterDescription",
     "processResponse"}

called(name) == \E i \in 1..Len(calls) : calls[i] = name

\* the cause of a fetch that did not succeed: what listAccessories threw, or
\* the message of its result behind "API Error: "
causeOf(fetch) ==
    IF fetch.kind = "throw" THEN fetch.message
    ELSE "API Error: " \o (IF Has(fetch, "message") THEN fetch.message ELSE "Unknown error")

\* a list or count call whose fetch of the inventory did not succeed
fetchFailed ==
    /\ op \in {"handleListAccessories", "handleCountAccessories"}
    /\ called("listAccessories")
    /\ input.fetch.kind # "success"

\* C17: when the fetch of the inventory reports a failure or throws, the list
\* and the count handler throw one error, "Failed to list accessories: " or
\* "Failed to count accessories: " followed by the cause, and no stage of the
\* pipeline has run.
C17_FetchFailureIsOneError ==
    fetchFailed =>
        /\ output = Thrown((IF op = "handleListAccessories" THEN "Failed to list accessories: "
                            ELSE "Failed to count accessories: ") \o causeOf(input.fetch))
        /\ \A name \in PipelineCalls : ~called(name)

\* a count whose fetch reported a failure without a message
C17_Witness ==
    /\ op = "handleCountAccessories"
    /\ fetchFailed
    /\ input.fetch = [kind |-> "failure"]
    /\ output = Thrown("Failed to count accessories: API Error: Unknown error")

\* the construction and connection of a client, and the requests to the hub
ConnectionCalls == {"new Sprut", "connected"}
HubRequests == {"listAccessories", "listRooms", "listHubs", "execute", "version", "callMethod"}

\* a request without the identifier its tool requires
identifierMissing ==
    \/ op = "handleGetDeviceInfo" /\ ~Has(input.args, "accessoryId")
    \/ op \in {"handleGetMethodSchema", "handleCallMethod"} /\ methodNameMissing(input.args)

\* C19: a request without its required identifier (accessoryId for the device
\* info, methodName for the method schema and the method call) is rejected,
\* and the handler has neither tried to connect nor sent a request to the hub.
C19_RejectedBeforeConnecting ==
    identifierMissing =>
        /\ ~output.ok
        /\ \A name \in ConnectionCalls \cup HubRequests : ~called(name)

\* what holds of C19: the same for the two tools that take a methodName; a
\* device info request without accessoryId is rejected as well
C19_MethodNameTestedFirst ==
    identifierMissing =>
        /\ ~output.ok
        /\ op # "handleGetDeviceInfo"
              => \A name \in ConnectionCalls \cup HubRequests : ~called(name)

\* the call that ran last is one that needs the hub: any call of a handler
\* that starts with ensureConnected, and a method call that passed the tests
\* of its method name
needsHub ==
    \/ op \in {"handleExecute", "handleListRooms", "handleListHubs", "handleListAccessories",
                "handleCountAccessories", "handleGetDeviceInfo", "handleVersion",
                "handleUsageGuide"}
    \/ /\ op = "handleCallMethod"
       /\ ~methodNameMissing(input.args)
       /\ getMethodSchema(input.args.methodName).found

\* the call failed with the error that names the four variables to set
failedForSettings ==
    \/ output = Thrown(missingParameters)
    \/ op = "handleCallMethod" /\ output = Thrown("Failed to call method: " \o missingParameters)

\* C18: a call that needs the hub, made when there is no client and one of
\* the four connection settings is missing, fails with the error naming the
\* four environment variables; no client is constructed, sprutClient stays
\* null and no request is sent to the hub.
C18_MissingSettingsFailTheCall ==
    [][(sprutClient = "null" /\ ConnectionSettings \ env # {} /\ needsHub')
          => /\ failedForSettings'
             /\ sprutClient' = "null"
             /\ \A name \in ConnectionCalls \cup HubRequests : ~called(name)']_vars

\* a command sent to a server without SPRUTHUB_SERIAL
C18_Witness ==
    /\ op = "handleExecute"
    /\ env = ConnectionSettings \ {"SPRUTHUB_SERIAL"}
    /\ sprutClient = "null"
    /\ output = Thrown(missingParameters)
    /\ calls = <<>>
    /\ fetched = NotFetched
    /\ inflight = NoneInFlight

\* a list or count call whose fetch of the inventory succeeded
fetchSucceeded ==
    /\ op \in {"handleListAccessories", "handleCountAccessories"}
    /\ called("listAccessories")
    /\ input.fetch.kind = "success"

\* a response envelope: text blocks, at least one, and metadata
wellFormed(response) ==
    /\ DOMAIN response = {"content", "_meta"}
    /\ Len(response.content) >= 1
    /\ \A i \in 1..Len(response.content) : response.content[i].type = "text"

\* C20: once the inventory is fetched, a list or count call never throws,
\* whatever the inventory and the arguments: it returns a well-formed
\* response envelope, be it empty or truncated.
C20_NeverRaisesOnceFetched ==
    fetchSucceeded => output.ok /\ wellFormed(output.value)

\* what holds of C20: the same for every deviceTypeFilter that is not the
\* name of a property objects inherit
C20_ExceptInheritedPropertyNames ==
    (fetchSucceeded /\ ~(truthyString(input.args, "deviceTypeFilter")
                          /\ toLowerCase(input.args.deviceTypeFilter) \in objectPrototypeKeys))
        => output.ok /\ wellFormed(output.value)

\* C9: currentPage = max(1, floor(page)) and
\* pageSize = clamp(floor(limit), 1, maxDevicesPerPage), so currentPage >= 1
\* and 1 <= pageSize <= maxDevicesPerPage; a limit above the maximum is
\* capped and never rejected
C9_PageAndSizeByFloor ==
    listed =>
        /\ Whole(listMeta.currentPage) = pageByFloor(requestedPage)
        /\ listMeta.pageSize = sizeByFloor(resolvedLimit, tokenLimits.maxDevicesPerPage)
        /\ listMeta.currentPage >= 1
        /\ listMeta.pageSize >= 1 /\ listMeta.pageSize <= tokenLimits.maxDevicesPerPage

\* what does hold of the two: their ranges
C9_PageAndSizeInRange ==
    listed =>
        /\ listMeta.currentPage >= 1
        /\ listMeta.pageSize >= 1 /\ listMeta.pageSize <= tokenLimits.maxDevicesPerPage


\* C23: in summary mode every item returned is the projection of its
\* accessory to id, name, manufacturer, model, online and roomId with
\* servicesCount, the number of its services, and controllable, true exactly
\* when one of its services has a characteristic with control.write true;
\* with summary off every item returned is the accessory itself.
C23_SummaryProjection ==
    (listed /\ ~metadataOnly) =>
        \A i \in 1..Len(listMeta.accessories) :
            LET item == listMeta.accessories[i]
                acc == inventory[item.id]
            IN  IF listMeta.filters.summary
                THEN /\ DOMAIN item \subseteq {"id", "name", "manufacturer", "model", "online",
                                               "roomId", "servicesCount", "controllable"}
                     /\ \A k \in {"id", "name", "manufacturer", "model", "online", "roomId"} :
                           IF Has(acc, k) THEN Has(item, k) /\ item[k] = acc[k]
                           ELSE ~Has(item, k)
                     /\ item.servicesCount
                           = (IF Has(acc, "services") THEN Len(acc.services) ELSE 0)
                     /\ item.controllable = isControllable(acc)
                ELSE item = acc

\* a page of summaries with a controllable accessory, one that is not, and
\* one without services
C23_Witness ==
    /\ listed /\ ~metadataOnly
    /\ listMeta.filters.summary
    /\ \E i, j, k \in 1..Len(listMeta.accessories) :
          /\ listMeta.accessories[i].controllable
          /\ ~listMeta.accessories[j].controllable /\ listMeta.accessories[j].servicesCount = 1
          /\ listMeta.accessories[k].servicesCount = 0

\* what handleCountAccessories returns or throws for the arguments of the
\* call and the accessories the hub holds
countedForTheSame ==
    rethrown(countAccessoriesBody(input.args, Fetched), "Failed to count accessories: ")

\* C29: for the same accessories and the same filter arguments the count of
\* handleCountAccessories is the totalCount of handleListAccessories,
\* whatever page, limit, summary and metaOnly the list call carries and
\* whatever the smart defaults make of them; one throws when the other does.
C29_CountIsTotalCount ==
    (op = "handleListAccessories" /\ fetched.kind = "fetched") =>
        /\ countedForTheSame.ok <=> output.ok
        /\ output.ok => countedForTheSame.value._meta.count = listMeta.totalCount

\* a filtered listing of several pages whose page size the smart defaults
\* set, asked for metadata only
C29_Witness ==
    /\ listed /\ fetched.kind = "fetched"
    /\ Has(listArgs, "onlineOnly")
    /\ metadataOnly
    /\ listMeta.pageSize = 10 /\ ~Has(listArgs, "limit")
    /\ listMeta.totalPages > 1
    /\ listMeta.totalCount < Len(inventory)
    /\ countedForTheSame.value._meta.count = listMeta.totalCount

\* C25: this.sprutClient holds a client only if connected() of that client
\* resolved: a client whose connected() rejected is not kept, and the next
\* call constructs a client again.
C25_OnlyConnectedClientKept == sprutClient \in {"null", "connected"}

\* the second half of C25: a call that finds no connected client, with the
\* settings there, constructs one
C25_NextCallConnectsAgain ==
    [][(sprutClient # "connected" /\ ConnectionSettings \subseteq env /\ needsHub')
          => called("new Sprut")']_vars

\* a list or count call that was handed the accessories of the hub
fetchedThem ==
    op \in {"handleListAccessories", "handleCountAccessories"} /\ fetched.kind = "fetched"

\* the call names no filter: no room, no text to look for, no flag set
namesNoFilter ==
    /\ ~Has(input.args, "roomId")
    /\ \A k \in {"nameFilter", "deviceTypeFilter", "manufacturerFilter", "modelFilter"} :
          ~Has(input.args, k) \/ input.args[k] = <<>>
    /\ \A k \in {"controllableOnly", "onlineOnly", "offlineOnly"} :
          ~Has(input.args, k) \/ input.args[k] = FALSE

-----------------------------------------------------------------------------
(* SpecWalk: a caller that lists with metaOnly off and fetches the pages    *)
(* 1..totalPages one after the other, keeping the accessories of each.     *)

WalkFilters ==
    {EmptyObject, [onlineOnly |-> TRUE], [nameFilter |-> S_AIR],
     [deviceTypeFilter |-> K_air_quality, controllableOnly |-> TRUE],
     [roomId |-> 1, offlineOnly |-> TRUE]}

WalkArgs ==
    {Spread(Spread(Spread(f, a), d), [metaOnly |-> FALSE]) :
        f \in WalkFilters,
        a \in Optional("summary", BOOLEAN),
        d \in Optional("limit", PageLimits)}

InitWalk ==
    /\ tokenLimits \in ServerLimits
    /\ sprutClient = "connected"
    /\ env = ConnectionSettings
    /\ inventory \in HubInventories
    /\ op = "init"
    /\ input = EmptyObject
    /\ output = EmptyObject
    /\ walk = NoWalk
    /\ calls = <<>>
    /\ fetched = NotFetched
    /\ inflight = NoneInFlight

\* the call for page n of the listing
FetchPage(args, n) ==
    /\ op' = "handleListAccessories"
    /\ input' = [args |-> Spread(args, Prop("page", Whole(n))), connects |-> TRUE,
                 fetch |-> answered(Fetched)]
    /\ Handled(handleListAccessories(Spread(args, Prop("page", Whole(n))), TRUE, Fetched))
    /\ UNCHANGED <<tokenLimits, env, inventory, inflight>>

\* the first page, which tells how many pages there are
StartWalk(args) ==
    /\ op = "init"
    /\ FetchPage(args, 1)
    /\ walk' = IF output'.ok
               THEN [active |-> TRUE, args |-> args, next |-> 2,
                     totalPages |-> output'.value._meta.totalPages,
                     pageSize |-> output'.value._meta.pageSize,
                     summary |-> output'.value._meta.filters.summary,
                     accessories |-> output'.value._meta.accessories]
               ELSE NoWalk

\* the next page
WalkPage ==
    /\ walk.active
    /\ walk.next <= walk.totalPages
    /\ FetchPage(walk.args, walk.next)
    /\ walk' = IF output'.ok
               THEN [walk EXCEPT !.next = @ + 1,
                                 !.accessories = @ \o output'.value._meta.accessories]
               ELSE NoWalk

NextWalk ==
    \/ \E args \in WalkArgs : StartWalk(args)
    \/ WalkPage
    \/ Return

SpecWalk == InitWalk /\ [][NextWalk]_vars

\* the walk has fetched every page
walked == walk.active /\ walk.next > walk.totalPages

\* the filtered collection, as full accessories or as their summaries
filteredCollection ==
    LET filtered == applyAccessoryFilters(inventory, filterArgs(walk.args)).value
    IN  IF walk.summary THEN [i \in 1..Len(filtered) |-> summaryOf(filtered[i])]
        ELSE filtered

\* C1: the pages 1..totalPages of a listing, concatenated, are the filtered
\* collection in its order, nothing twice and nothing left out
C1_PagesMakeTheCollection ==
    walked =>
        /\ walk.accessories = filteredCollection
        /\ \A i, j \in 1..Len(walk.accessories) :
               walk.accessories[i].id = walk.accessories[j].id => i = j

C1_Witness ==
    /\ walked
    /\ walk.totalPages >= 3
    /\ walk.pageSize > 1
    /\ Len(walk.accessories) % walk.pageSize # 0
    /\ Len(walk.accessories) < Len(inventory)
    /\ ~walk.summary

-----------------------------------------------------------------------------
(* SpecCalls: tool calls in flight together. A call runs from the request  *)
(* handler (index.js 503-537) into its handler and stops at each await     *)
(* that waits for the hub: connected() in ensureConnected (779) and         *)
(* listAccessories (898, 1051); between two awaits it runs alone. The hub   *)
(* changes its accessories at any time.                                     *)

MaxInFlight == 2
InFlight == 1..MaxInFlight

\* the tools called: two the request handler knows, one it does not
ToolNames == {"spruthub_list_accessories", "spruthub_count_accessories", "spruthub_reboot"}

CallArgs == {[summary |-> FALSE], [onlineOnly |-> TRUE]}

SmallHubs == {HubInventory(n) : n \in {0, 2}}

\* McpError of the SDK: its message carries the code
mcpErrorMessage(code, message) == "MCP error " \o code \o ": " \o message

\* index.js 531-535: the catch block of the request handler
toolFailure(message) ==
    [ok |-> FALSE, code |-> "InternalError", error |-> "Tool execution failed: " \o message]

\* index.js 506-535: what the request handler returns or throws for what the
\* handler returned or threw
dispatched(outcome) == IF outcome.ok THEN outcome ELSE toolFailure(outcome.error)

\* index.js 523-535: a name that matches no case: the McpError thrown at 525
\* is thrown inside the try block and caught at 530
unknownTool(name) == toolFailure(mcpErrorMessage("-32601", "Unknown tool: " \o name))

\* index.js 757-779: ensureConnected up to its await, and where the call
\* stands then: thrown out for missing settings, waiting for connected() of
\* the client it has just assigned to this.sprutClient (771), or through
\* with the client it found
ensureConnectedBegins ==
    IF sprutClient # "null" THEN [client |-> sprutClient, pc |-> "fetching"]
    ELSE IF settingsMissing(env)
    THEN [client |-> "null", pc |-> "done", outcome |-> Thrown(missingParameters)]
    ELSE [client |-> "unconnected", pc |-> "connecting"]

\* index.js 779-783: connected() resolves or rejects
ensureConnectedResumes(connects) ==
    IF connects THEN [client |-> "connected", pc |-> "fetching"]
    ELSE [client |-> "unconnected", pc |-> "done",
          outcome |-> Thrown("Failed to connect: refused")]

\* index.js 899-1033, 1053-1092: the handler from the answer of
\* listAccessories to its end
handlerResumes(name, args, fetch) ==
    IF name = "spruthub_list_accessories"
    THEN rethrown(listAccessoriesBody(args, fetch), "Failed to list accessories: ")
    ELSE rethrown(countAccessoriesBody(args, fetch), "Failed to count accessories: ")

NotCalled == [pc |-> "idle"]

InitCalls ==
    /\ tokenLimits = DefaultLimits
    /\ sprutClient = "null"
    /\ env \in {ConnectionSettings, ConnectionSettings \ {"SPRUTHUB_SERIAL"}}
    /\ inventory \in SmallHubs
    /\ op = "init"
    /\ input = EmptyObject
    /\ output = EmptyObject
    /\ walk = NoWalk
    /\ calls = <<>>
    /\ fetched = NotFetched
    /\ inflight = [c \in InFlight |-> NotCalled]

\* a request for a tool arrives and runs to its first await, or to its end.
\* calls keeps the clients constructed; a call that is through
\* ensureConnected sends its request on this.sprutClient as it is then.
CallTool(c, name, args) ==
    /\ inflight[c].pc = "idle"
    /\ IF name \notin {"spruthub_list_accessories", "spruthub_count_accessories"}
       THEN /\ inflight' = [inflight EXCEPT ![c] = [pc |-> "done", name |-> name, args |-> args,
                                                    requests |-> 0,
                                                    outcome |-> unknownTool(name)]]
            /\ UNCHANGED <<sprutClient, calls>>
       ELSE LET began == ensureConnectedBegins
            IN  /\ sprutClient' = began.client
                /\ calls' = IF began.pc = "connecting" THEN calls \o <<"new Sprut">> ELSE calls
                /\ inflight' = [inflight EXCEPT ![c] =
                       IF began.pc = "done"
                       THEN [pc |-> "done", name |-> name, args |-> args, requests |-> 0,
                             outcome |-> dispatched(began.outcome)]
                       ELSE IF began.pc = "connecting"
                       THEN [pc |-> "connecting", name |-> name, args |-> args]
                       ELSE [pc |-> "fetching", name |-> name, args |-> args,
                             client |-> began.client]]
    /\ UNCHANGED <<tokenLimits, env, inventory, op, input, output, walk, fetched>>

\* connected() of the client the call constructed settles
ConnectionSettles(c, connects) ==
    /\ inflight[c].pc = "connecting"
    /\ LET resumed == ensureConnectedResumes(connects)
       IN  /\ sprutClient' = resumed.client
           /\ inflight' = [inflight EXCEPT ![c] =
                  IF resumed.pc = "done"
                  THEN [pc |-> "done", name |-> @.name, args |-> @.args, requests |-> 0,
                        outcome |-> dispatched(resumed.outcome)]
                  ELSE [pc |-> "fetching", name |-> @.name, args |-> @.args,
                        client |-> resumed.client]]
    /\ UNCHANGED <<tokenLimits, env, inventory, op, input, output, walk, calls, fetched>>

\* listAccessories of the call settles: with the accessories the hub holds
\* then, with a failure, or by throwing; the handler runs to its end
ListAccessoriesSettles(c, fetch) ==
    /\ inflight[c].pc = "fetching"
    /\ inflight' = [inflight EXCEPT ![c] =
           [pc |-> "done", name |-> @.name, args |-> @.args, client |-> @.client,
            requests |-> 1, answer |-> fetch,
            outcome |-> dispatched(handlerResumes(@.name, @.args, fetch))]]
    /\ fetched' = IF fetch.kind = "success"
                  THEN [kind |-> "fetched", data |-> accessoriesOf(fetch)]
                  ELSE fetched
    /\ UNCHANGED <<tokenLimits, sprutClient, env, inventory, op, input, output, walk, calls>>

\* the hub gains, loses or replaces accessories
HubChanges ==
    /\ \E accessories \in SmallHubs \ {inventory} : inventory' = accessories
    /\ UNCHANGED <<tokenLimits, sprutClient, env, op, input, output, walk, calls, fetched,
                   inflight>>

\* the outcome of a call is sent to its caller
Respond(c) ==
    /\ inflight[c].pc = "done"
    /\ inflight' = [inflight EXCEPT ![c] = NotCalled]
    /\ UNCHANGED <<tokenLimits, sprutClient, env, inventory, op, input, output, walk, calls,
                   fetched>>

NextCalls ==
    \/ \E c \in InFlight, name \in ToolNames, args \in CallArgs : CallTool(c, name, args)
    \/ \E c \in InFlight, connects \in BOOLEAN : ConnectionSettles(c, connects)
    \/ \E c \in InFlight, fetch \in Fetches : ListAccessoriesSettles(c, fetch)
    \/ HubChanges
    \/ \E c \in InFlight : Respond(c)

SpecCalls == InitCalls /\ [][NextCalls]_vars

\* the calls that listAccessories answered with accessories
answeredCalls ==
    {c \in InFlight : inflight[c].pc = "done" /\ inflight[c].requests = 1
                      /\ inflight[c].answer.kind = "success"}

\* the accessories of the answer to call c that pass the filters of call c
matchingOf(c) ==
    SelectSeq(inflight[c].answer.data,
              LAMBDA acc : satisfiesAll(acc, filterArgs(inflight[c].args)))

\* C22: a list or count call sends listAccessories once, and what it returns
\* is determined by the accessories of its own answer and by its own
\* arguments, whatever other calls were answered before it or are in flight
\* with it, and whatever the hub held for them.
C22_OwnSnapshotAndArguments ==
    /\ \A c \in InFlight : inflight[c].pc = "done" => inflight[c].requests <= 1
    /\ \A c \in InFlight :
          (inflight[c].pc = "done" /\ inflight[c].outcome.ok) => inflight[c].requests = 1
    /\ \A c \in answeredCalls :
          LET meta == inflight[c].outcome.value._meta
          IN  /\ inflight[c].outcome.ok
              /\ inflight[c].name = "spruthub_count_accessories"
                    => meta.count = Len(matchingOf(c))
              /\ inflight[c].name = "spruthub_list_accessories"
                    => /\ meta.totalCount = Len(matchingOf(c))
                       /\ Len(meta.accessories) = Len(matchingOf(c))
                       /\ \A i \in 1..Len(meta.accessories) :
                             /\ meta.accessories[i].id = matchingOf(c)[i].id
                             /\ ~meta.filters.summary => meta.accessories[i] = matchingOf(c)[i]

\* two calls with different arguments, answered with different accessories:
\* each counts its own
C22_Witness ==
    /\ answeredCalls = {1, 2}
    /\ inflight[1].args # inflight[2].args
    /\ inflight[1].answer.data # inflight[2].answer.data
    /\ inflight[1].name = "spruthub_count_accessories"
    /\ inflight[2].name = "spruthub_list_accessories"
    /\ inflight[1].outcome.value._meta.count = 1
    /\ inflight[2].outcome.value._meta.totalCount = 0
    /\ fetched.data # inflight[1].answer.data

\* C26: with two tool calls in flight no call is through ensureConnected
\* before connected() of the client has resolved, no handler sends a request
\* on a client whose connected() has not resolved, and at most one client is
\* constructed.
C26_WaitsForTheConnection ==
    /\ \A c \in InFlight :
          (inflight[c].pc \in {"fetching", "done"} /\ Has(inflight[c], "client"))
              => inflight[c].client = "connected"
    /\ Len(calls) <= 1

\* what holds of C26: at most one client is constructed, a second call
\* finding this.sprutClient assigned
C26_AtMostOneClient == Len(calls) <= 1

\* the messages the handlers of the two tools throw
HandlerErrors ==
    {missingParameters, "Failed to connect: refused"}
    \cup {prefix \o cause :
             prefix \in {"Failed to list accessories: ", "Failed to count accessories: "},
             cause \in {"timeout", "API Error: hub error", "API Error: Unknown error"}}

\* C28: a call for a tool the request handler does not know fails with the
\* code MethodNotFound; a failure inside the handler of a tool it knows
\* fails with the code InternalError and the message "Tool execution
\* failed: " followed by the cause.
C28_UnknownToolIsMethodNotFound ==
    \A c \in InFlight :
        (inflight[c].pc = "done" /\ ~inflight[c].outcome.ok)
            => IF inflight[c].name = "spruthub_reboot"
               THEN inflight[c].outcome.code = "MethodNotFound"
               ELSE /\ inflight[c].outcome.code = "InternalError"
                    /\ \E cause \in HandlerErrors :
                          inflight[c].outcome.error = "Tool execution failed: " \o cause

\* what holds of C28: the failure of a known tool's handler is an
\* InternalError with that message, and so is the call for an unknown tool
C28_EveryFailureIsInternalError ==
    \A c \in InFlight :
        (inflight[c].pc = "done" /\ ~inflight[c].outcome.ok)
            => /\ inflight[c].outcome.code = "InternalError"
               /\ inflight[c].name # "spruthub_reboot"
                     => \E cause \in HandlerErrors :
                           inflight[c].outcome.error = "Tool execution failed: " \o cause
               /\ inflight[c].name = "spruthub_reboot"
                     => inflight[c].outcome.error
                           = "Tool execution failed: MCP error -32601: Unknown tool: spruthub_reboot"

=============================================================================
